---- MODULE Spec2Model ----
(***************************************************************************)
(* Model of the EBAS ingestion path of pyaerocom:                          *)
(*   - ReadEbas._get_var_cols, the wavelength step of ReadEbas.read_file,  *)
(*     ReadEbas._find_best_data_column and the extraction loop of          *)
(*     read_file (src/pyaerocom/io/read_ebas.py),                          *)
(*   - ReadEbas.read, which appends the records to UngriddedData,          *)
(*   - ReadEbas._merge_lists, which builds the file list of read,          *)
(*   - helpers.merge_station_data (src/pyaerocom/helpers.py).              *)
(*                                                                         *)
(* Conventions: a Python list is a sequence; column numbers are the        *)
(* 1-based positions in file.var_defs (Python: 0-based); a missing         *)
(* dictionary key is the value Absent; a configuration entry that is None  *)
(* is NoList (for lists) or 0 (for the wavelength); NaN is a value outside *)
(* the range of the data values.                                           *)
(***************************************************************************)
EXTENDS Integers, Sequences, FiniteSets, TLC

VARIABLES
    \* ---- ReadEbas.read_file (one file) ----
    file,                 \* the EbasNasaAmesFile being read
    vars_to_read,         \* list of variable names requested from the file
    loaded_aerocom_vars,  \* self.loaded_aerocom_vars: cache var -> wavelength_nm
    var_cols,             \* dict var -> list of column numbers (read_file local)
    var_order,            \* insertion order of the keys of var_cols
    fpc,                  \* position in read_file
    outcome,              \* what read_file returned or raised
    \* ---- ReadEbas.read (batch) ----
    files,                \* list of files to read
    files_contain,        \* per file: list of variables to read
    i,                    \* loop index of read()
    idx,                  \* logical length of the table (next free row)
    meta_key,             \* next metadata key
    var_count_glob,       \* counter of variables seen so far
    var_idx,              \* data_obj.var_idx: var -> index
    metadata,             \* data_obj.metadata: list, entry k+1 is key k
    meta_idx,             \* data_obj.meta_idx: key -> (var -> row numbers)
    data,                 \* data_obj._data: list of rows (capacity = Len)
    files_failed,         \* self.files_failed
    rpc,                  \* position in read()
    hist,                 \* history: per processed file, what happened
    \* ---- helpers.merge_station_data ----
    stats,                \* the list of StationData objects passed in
    opts,                 \* pref_attr given?, sort_by_largest, fill_missing_nan
    work,                 \* the local list stats after sorting / reversing
    merged,               \* the running result
    mpc,                  \* position in merge_station_data
    merr,                 \* the exception raised, or Absent
    \* ---- ReadEbas._merge_lists ----
    lists_per_var,        \* the dictionary of the caller: list of (var, lst)
    lists,                \* the dictionary the loops work on
    mapping,              \* dict path -> list of variables, in insertion order
    var_pos,              \* position of the outer loop in lists
    path_pos,             \* position of the inner loop in the list of var
    lpc                   \* position in _merge_lists

vars == <<file, vars_to_read, loaded_aerocom_vars, var_cols, var_order, fpc,
          outcome, files, files_contain, i, idx, meta_key, var_count_glob,
          var_idx, metadata, meta_idx, data, files_failed, rpc, hist,
          stats, opts, work, merged, mpc, merr,
          lists_per_var, lists, mapping, var_pos, path_pos, lpc>>

lvars == <<lists_per_var, lists, mapping, var_pos, path_pos, lpc>>

mvars == <<stats, opts, work, merged, mpc, merr>>

fvars == <<file, vars_to_read, loaded_aerocom_vars, var_cols, var_order, fpc,
           outcome>>

\* locals of read_file
flocal == <<file, vars_to_read, var_cols, var_order, fpc, outcome>>

rvars == <<files, files_contain, i, idx, meta_key, var_count_glob, var_idx,
           metadata, meta_idx, data, files_failed, rpc, hist>>

----------------------------------------------------------------------------
(* Generic helpers *)

Absent == ""
NoList == <<>>
NaN == 0 - 1

Range(s) == {s[k] : k \in 1..Len(s)}

\* list.index(x): position of the first occurrence
IndexOf(s, x) == CHOOSE k \in 1..Len(s) : s[k] = x /\ \A j \in 1..(k-1) : s[j] # x

SetMin(S) == CHOOSE x \in S : \A y \in S : x <= y

Abs(x) == IF x < 0 THEN 0 - x ELSE x

\* the empty dict
EmptyMap == [x \in {} |-> 0]

\* d[k] = v on a dictionary
SetItem(d, k, v) == [x \in DOMAIN d \cup {k} |-> IF x = k THEN v ELSE d[x]]

\* np.arange(start, stop)
arange(start, stop) == [j \in 1..(stop - start) |-> start + j - 1]

\* np.isnan(v).sum()
RECURSIVE NumNaN(_)
NumNaN(v) == IF v = <<>> THEN 0
             ELSE (IF v[1] = NaN THEN 1 ELSE 0) + NumNaN(Tail(v))

----------------------------------------------------------------------------
(* Class attributes of ReadEbas *)

PREFER_STATISTICS == <<"arithmetic mean", "median">>

IGNORE_STATISTICS == {"percentile:15.87", "percentile:84.13"}

WAVELENGTH_TOL_NM == 50

\* initial value of min_diff_wvl in read_file
MIN_DIFF_WVL_INIT == 1000000

\* exceptions caught per file by read()
CaughtErrors == {"NotInFileError", "EbasFileError"}

----------------------------------------------------------------------------
(* Variable registry: EbasVarInfo(var) and const.VAR_PARAM[var].           *)
(* component: accepted raw names; matrix / statistics: ordered preference  *)
(* lists or NoList (None); wavelength_nm: target wavelength or 0 (None).   *)

VarNames == {"scatc510aer", "concso4", "concpm10"}

EbasVarInfo(var) ==
    CASE var = "scatc510aer" ->
           [var_name |-> var, component |-> {"scat"},
            matrix |-> <<"aerosol", "pm10">>, statistics |-> NoList]
      [] var = "concso4" ->
           [var_name |-> var, component |-> {"sulphate", "sulphate_total"},
            matrix |-> NoList, statistics |-> <<"median", "arithmetic mean">>]
      [] OTHER ->
           [var_name |-> var, component |-> {"pm10_mass"},
            matrix |-> NoList, statistics |-> NoList]

\* all_vars[var].wavelength_nm
VarWavelength(var) == IF var = "scatc510aer" THEN 510 ELSE 0

----------------------------------------------------------------------------
(* ReadEbas._get_var_cols *)

\* effective matrix of a column in the candidate filter
FilterMatrix(f, col) == IF col.matrix # Absent THEN col.matrix ELSE f.matrix

ColMatches_NoIgnore(info, f, colnum) ==
    LET col == f.var_defs[colnum] IN
    /\ col.name \in info.component
    /\ (info.matrix # NoList => FilterMatrix(f, col) \in Range(info.matrix))
    /\ ((col.statistics # Absent /\ info.statistics # NoList) =>
          col.statistics \in Range(info.statistics))

\* lines 339-358: the column is a candidate of the variable
ColMatches(info, f, colnum) ==
    LET col == f.var_defs[colnum] IN
    /\ col.name \in info.component
    /\ (info.matrix # NoList => FilterMatrix(f, col) \in Range(info.matrix))
    /\ (col.statistics # Absent =>
          /\ col.statistics \notin IGNORE_STATISTICS
          /\ (info.statistics # NoList =>
                col.statistics \in Range(info.statistics)))

RECURSIVE SelectCols(_, _, _)
SelectCols(info, f, k) ==
    IF k > Len(f.var_defs) THEN <<>>
    ELSE (IF ColMatches(info, f, k) THEN <<k>> ELSE <<>>)
         \o SelectCols(info, f, k + 1)

\* the list col_matches; the empty list stands for NotInFileError
get_var_cols(info, f) == SelectCols(info, f, 1)

----------------------------------------------------------------------------
(* Wavelength step of read_file (lines 506-543): a loop over col_matches   *)
(* with the running state st = [min_diff_wvl, matches, err].               *)

WvlInRange(wvl, wvl_col) ==
    /\ wvl - WAVELENGTH_TOL_NM <= wvl_col
    /\ wvl_col <= wvl + WAVELENGTH_TOL_NM

\* mutant: the differences are compared with their sign
WvlBranch_Signed(wvl_diff, min_diff_wvl) ==
    IF wvl_diff < min_diff_wvl THEN "reset"
    ELSE IF wvl_diff = min_diff_wvl THEN "append"
    ELSE "skip"

\* the branch taken for a column in range: "reset", "append" or "skip"
WvlBranch(wvl_diff, min_diff_wvl) ==
    IF Abs(wvl_diff) < Abs(min_diff_wvl) THEN "reset"
    ELSE IF wvl_diff = min_diff_wvl THEN "append"
    ELSE "skip"

\* mutant: a column with a wavelength is accepted for a variable without one
WvlStepCol_Lenient(st, f, colnum, wvl) ==
    LET colinfo == f.var_defs[colnum] IN
    IF colinfo.wavelength # 0
    THEN IF wvl = 0
         THEN [st EXCEPT !.matches = Append(@, colnum)]
         ELSE IF WvlInRange(wvl, colinfo.wavelength)
              THEN LET wvl_diff == colinfo.wavelength - wvl
                       br == WvlBranch(wvl_diff, st.min_diff_wvl) IN
                   CASE br = "reset" ->
                          [st EXCEPT !.min_diff_wvl = wvl_diff,
                                     !.matches = <<colnum>>]
                     [] br = "append" ->
                          [st EXCEPT !.matches = Append(@, colnum)]
                     [] OTHER -> st
              ELSE st
    ELSE IF colinfo.location
         THEN [st EXCEPT !.err = "NotImplementedError"]
         ELSE [st EXCEPT !.matches = Append(@, colnum)]

WvlStepCol(st, f, colnum, wvl) ==
    LET colinfo == f.var_defs[colnum] IN
    IF colinfo.wavelength # 0
    THEN IF wvl = 0
         THEN [st EXCEPT !.err = "VariableDefinitionError"]
         ELSE IF WvlInRange(wvl, colinfo.wavelength)
              THEN LET wvl_diff == colinfo.wavelength - wvl
                       br == WvlBranch(wvl_diff, st.min_diff_wvl) IN
                   CASE br = "reset" ->
                          [st EXCEPT !.min_diff_wvl = wvl_diff,
                                     !.matches = <<colnum>>]
                     [] br = "append" ->
                          [st EXCEPT !.matches = Append(@, colnum)]
                     [] OTHER -> st
              ELSE st
    ELSE IF colinfo.location
         THEN [st EXCEPT !.err = "NotImplementedError"]
         ELSE [st EXCEPT !.matches = Append(@, colnum)]

RECURSIVE WvlLoop(_, _, _, _, _)
WvlLoop(st, f, cols, k, wvl) ==
    IF k > Len(cols) \/ st.err # Absent THEN st
    ELSE WvlLoop(WvlStepCol(st, f, cols[k], wvl), f, cols, k + 1, wvl)

WavelengthStep(f, col_matches, wvl) ==
    WvlLoop([min_diff_wvl |-> MIN_DIFF_WVL_INIT, matches |-> <<>>,
             err |-> Absent], f, col_matches, 1, wvl)

----------------------------------------------------------------------------
(* ReadEbas._find_best_data_column(cols, ebas_var_info, file).             *)
(* Result: [err |-> error name or Absent, cols |-> list of columns].       *)

\* columns of cols that carry a matrix attribute listed in the preference
HasPreferredMatrix(info, f, colnum) ==
    /\ f.var_defs[colnum].matrix # Absent
    /\ f.var_defs[colnum].matrix \in Range(info.matrix)

MatrixIdx(info, f, colnum) == IndexOf(info.matrix, f.var_defs[colnum].matrix)

\* mutant: every column of a preferred matrix is kept, whatever its index
MatrixMatches_AnyListed(cols, info, f) ==
    LET found == {k \in 1..Len(cols) : HasPreferredMatrix(info, f, cols[k])} IN
    IF found = {} THEN cols
    ELSE SelectSeq(cols, LAMBDA c : HasPreferredMatrix(info, f, c))

\* lines 380-404: the list matrix_matches (no error case)
MatrixMatches(cols, info, f) ==
    LET found == {k \in 1..Len(cols) : HasPreferredMatrix(info, f, cols[k])} IN
    IF found = {} THEN cols
    ELSE LET best == SetMin({MatrixIdx(info, f, cols[k]) : k \in found}) IN
         SelectSeq(cols, LAMBDA c : /\ HasPreferredMatrix(info, f, c)
                                    /\ MatrixIdx(info, f, c) = best)

\* mutant: the preference list of the variable is not looked at
PreferredStatistics_Global(info) == PREFER_STATISTICS

\* lines 409-413
PreferredStatistics(info) ==
    IF info.statistics # NoList THEN info.statistics ELSE PREFER_STATISTICS

\* lines 416-419: statistics of a column, else of the file meta, else Absent
ColStatistics(f, colnum) ==
    IF f.var_defs[colnum].statistics # Absent
    THEN f.var_defs[colnum].statistics
    ELSE f.meta_statistics

\* lines 414-433: the list result_col (no error case)
StatisticsMatches(cols, info, f) ==
    LET pref == PreferredStatistics(info)
        found == {k \in 1..Len(cols) : ColStatistics(f, cols[k]) \in Range(pref)} IN
    IF found = {} THEN <<>>
    ELSE LET best == SetMin({IndexOf(pref, ColStatistics(f, cols[k])) : k \in found}) IN
         SelectSeq(cols, LAMBDA c : /\ ColStatistics(f, c) \in Range(pref)
                                    /\ IndexOf(pref, ColStatistics(f, c)) = best)

\* mutant: the columns with the same statistics are all returned
FewestNaN_All(cols, f) == cols

\* mutant: of several columns with the fewest NaN the last one is taken
FewestNaN_LastMin(cols, f) ==
    LET n(k) == NumNaN(f.data[cols[k]])
        k0 == CHOOSE k \in 1..Len(cols) :
                 /\ \A j \in 1..Len(cols) : n(k) <= n(j)
                 /\ \A j \in (k+1)..Len(cols) : n(j) > n(k)
    IN <<cols[k0]>>

\* lines 441-444: result_col[np.argmin(num_invalid)], first minimum wins
FewestNaN(cols, f) ==
    LET n(k) == NumNaN(f.data[cols[k]])
        k0 == CHOOSE k \in 1..Len(cols) :
                 /\ \A j \in 1..Len(cols) : n(k) <= n(j)
                 /\ \A j \in 1..(k-1) : n(j) > n(k)
    IN <<cols[k0]>>

find_best_data_column(cols, info, f) ==
    IF info.matrix = NoList /\ \E k \in 1..Len(cols) : f.var_defs[cols[k]].matrix # Absent
    THEN [err |-> "IOError", cols |-> <<>>]
    ELSE LET matrix_matches == MatrixMatches(cols, info, f) IN
         IF Len(matrix_matches) = 1
         THEN [err |-> Absent, cols |-> matrix_matches]
         ELSE IF \E k \in 1..Len(matrix_matches) :
                     ColStatistics(f, matrix_matches[k]) = Absent
              THEN [err |-> "EbasFileError", cols |-> <<>>]
              ELSE LET result_col == StatisticsMatches(matrix_matches, info, f) IN
                   IF Len(result_col) = 1
                   THEN [err |-> Absent, cols |-> result_col]
                   ELSE IF Len(result_col) = 0
                        THEN [err |-> "ValueError", cols |-> <<>>]
                        ELSE [err |-> Absent, cols |-> FewestNaN(result_col, f)]

----------------------------------------------------------------------------
(* ReadEbas.read_file, lines 490-548: resolution of the candidate columns  *)
(* of every requested variable.  The running state is                      *)
(*   [cache, var_cols, order, err].                                        *)

\* mutant: a new cache entry takes the information of a variable cached before
CacheUpdate_Stale(cache, var) ==
    IF var \in DOMAIN cache THEN cache
    ELSE [v \in DOMAIN cache \cup {var} |->
            IF v # var THEN cache[v]
            ELSE IF DOMAIN cache = {} THEN VarWavelength(var)
            ELSE cache[CHOOSE u \in DOMAIN cache : TRUE]]

\* lines 491-493: the variable information is taken from the cache
CacheUpdate(cache, var) ==
    IF var \in DOMAIN cache THEN cache
    ELSE [v \in DOMAIN cache \cup {var} |->
            IF v = var THEN VarWavelength(var) ELSE cache[v]]

CacheLookup(cache, var) == cache[var]

ResolveVar_Fatal(st, f, var) ==
    LET cache1 == CacheUpdate(st.cache, var)
        wvl == CacheLookup(cache1, var)
        col_matches == get_var_cols(EbasVarInfo(var), f)
        st1 == [st EXCEPT !.cache = cache1] IN
    IF col_matches = <<>> THEN [st1 EXCEPT !.err = "NotInFileError"]
    ELSE LET w == WavelengthStep(f, col_matches, wvl) IN
         IF w.err # Absent THEN [st1 EXCEPT !.err = w.err]
         ELSE IF w.matches = <<>> THEN st1
         ELSE [st1 EXCEPT
                 !.var_cols = [v \in DOMAIN st.var_cols \cup {var} |->
                                 IF v = var THEN w.matches ELSE st.var_cols[v]],
                 !.order = IF var \in DOMAIN st.var_cols THEN @
                           ELSE Append(@, var)]

\* lines 491-543: one pass of the first loop
ResolveVar(st, f, var) ==
    LET cache1 == CacheUpdate(st.cache, var)
        wvl == CacheLookup(cache1, var)
        col_matches == get_var_cols(EbasVarInfo(var), f)
        st1 == [st EXCEPT !.cache = cache1] IN
    IF col_matches = <<>> THEN st1                     \* NotInFileError: continue
    ELSE LET w == WavelengthStep(f, col_matches, wvl) IN
         IF w.err # Absent THEN [st1 EXCEPT !.err = w.err]
         ELSE IF w.matches = <<>> THEN st1
         ELSE [st1 EXCEPT
                 !.var_cols = [v \in DOMAIN st.var_cols \cup {var} |->
                                 IF v = var THEN w.matches ELSE st.var_cols[v]],
                 !.order = IF var \in DOMAIN st.var_cols THEN @
                           ELSE Append(@, var)]

RECURSIVE ResolveLoop(_, _, _, _)
ResolveLoop(st, f, vars_, k) ==
    IF k > Len(vars_) \/ st.err # Absent THEN st
    ELSE ResolveLoop(ResolveVar(st, f, vars_[k]), f, vars_, k + 1)

ResolveAll(f, vars_, cache) ==
    LET st == ResolveLoop([cache |-> cache, var_cols |-> EmptyMap,
                           order |-> <<>>, err |-> Absent], f, vars_, 1) IN
    IF st.err = Absent /\ st.order = <<>>
    THEN [st EXCEPT !.err = "NotInFileError"]
    ELSE st

----------------------------------------------------------------------------
(* read_file, lines 550-554: reduce every list of several columns *)

RECURSIVE BestLoop(_, _, _, _)
BestLoop(st, f, order, k) ==
    IF k > Len(order) \/ st.err # Absent THEN st
    ELSE LET var == order[k] IN
         IF Len(st.var_cols[var]) > 1
         THEN LET b == find_best_data_column(st.var_cols[var], EbasVarInfo(var), f) IN
              IF b.err # Absent
              THEN BestLoop([st EXCEPT !.err = b.err], f, order, k + 1)
              ELSE BestLoop([st EXCEPT !.var_cols[var] = b.cols], f, order, k + 1)
         ELSE BestLoop(st, f, order, k + 1)

BestAll(f, order, vc) ==
    BestLoop([var_cols |-> vc, err |-> Absent], f, order, 1)

----------------------------------------------------------------------------
(* read_file, lines 556-645: the station record *)

MERGE_STATIONS(name) == IF name = "Birkenes" THEN "Birkenes II" ELSE name

AllNaN(f, colnum) == NumNaN(f.data[colnum]) = Len(f.time_stamps)

RECURSIVE ExtractLoop_KeepNaN(_, _, _, _)
ExtractLoop_KeepNaN(st, f, order, k) ==
    IF k > Len(order) \/ st.err # Absent THEN st
    ELSE IF Len(st.var_cols[order[k]]) # 1
         THEN [st EXCEPT !.err = "Exception"]
         ELSE ExtractLoop_KeepNaN([st EXCEPT !.contains_vars = Append(@, order[k])],
                                  f, order, k + 1)

\* lines 607-633: the list contains_vars, or the error of the length check
RECURSIVE ExtractLoop(_, _, _, _)
ExtractLoop(st, f, order, k) ==
    IF k > Len(order) \/ st.err # Absent THEN st
    ELSE LET var == order[k]
             colnums == st.var_cols[var] IN
         IF Len(colnums) # 1
         THEN [st EXCEPT !.err = "Exception"]
         ELSE IF AllNaN(f, colnums[1])
              THEN ExtractLoop(st, f, order, k + 1)
              ELSE ExtractLoop([st EXCEPT !.contains_vars = Append(@, var)],
                               f, order, k + 1)

Raised(e) == [status |-> e, contains_vars |-> <<>>, colnum |-> EmptyMap,
              dtime |-> <<>>, station_name |-> Absent, stat_lat |-> 0,
              stat_lon |-> 0, stat_alt |-> 0, instrument_name |-> Absent]

ExtractAll(f, order, vc) ==
    LET st == ExtractLoop([var_cols |-> vc, contains_vars |-> <<>>,
                           err |-> Absent], f, order, 1) IN
    IF st.err # Absent THEN Raised(st.err)
    ELSE IF st.contains_vars = <<>> THEN Raised("EbasFileError")
    ELSE [status |-> "ok",
          contains_vars |-> st.contains_vars,
          colnum |-> [v \in Range(st.contains_vars) |-> vc[v][1]],
          dtime |-> f.time_stamps,
          station_name |-> MERGE_STATIONS(f.station_name),
          stat_lat |-> f.station_latitude,
          stat_lon |-> f.station_longitude,
          stat_alt |-> f.station_altitude,
          instrument_name |-> f.instrument_name]

\* the whole of read_file: [cache, outcome]
ReadFile(f, vars_, cache) ==
    LET r == ResolveAll(f, vars_, cache) IN
    IF r.err # Absent THEN [cache |-> r.cache, outcome |-> Raised(r.err)]
    ELSE LET b == BestAll(f, r.order, r.var_cols) IN
         IF b.err # Absent THEN [cache |-> r.cache, outcome |-> Raised(b.err)]
         ELSE [cache |-> r.cache,
               outcome |-> ExtractAll(f, r.order, b.var_cols)]

----------------------------------------------------------------------------
(* Inputs: parsed files (the EbasNasaAmesFile contract) *)

MaxCols == 3
NumSamples == 2
MaxVars == 2

\* a data column of n samples: no NaN, NaN in the first sample, or only NaN
Samples(pattern, n) ==
    [k \in 1..n |-> CASE pattern = "full" -> k
                      [] pattern = "gap" -> IF k = 1 THEN NaN ELSE k
                      [] OTHER -> NaN]

Col(name, matrix, statistics, wavelength, location, pattern) ==
    [name |-> name, matrix |-> matrix, statistics |-> statistics,
     wavelength |-> wavelength, location |-> location, pattern |-> pattern]

\* columns of the scattering coefficient
ScatCols ==
    { Col("scat", Absent, Absent, 500, FALSE, "full"),
      Col("scat", Absent, Absent, 520, FALSE, "gap"),
      Col("scat", Absent, "arithmetic mean", 600, FALSE, "full"),
      Col("scat", "aerosol", "median", 510, FALSE, "gap"),
      Col("scat", "pm10", "arithmetic mean", 0, FALSE, "nan"),
      Col("scat", "pm10", "percentile:15.87", 520, FALSE, "full") }

\* columns of sulphate
SulphateCols ==
    { Col("sulphate", Absent, "median", 0, FALSE, "full"),
      Col("sulphate_total", Absent, "median", 0, FALSE, "gap"),
      Col("sulphate", "aerosol", "arithmetic mean", 0, FALSE, "gap"),
      Col("sulphate", Absent, Absent, 520, FALSE, "full"),
      Col("sulphate", Absent, "arithmetic mean", 0, FALSE, "full") }

\* columns of the mass concentration
MassCols ==
    { Col("pm10_mass", Absent, "maximum", 0, FALSE, "full"),
      Col("pm10_mass", Absent, Absent, 0, TRUE, "full"),
      Col("pm10_mass", Absent, "median", 0, FALSE, "nan"),
      Col("pm10_mass", Absent, Absent, 0, FALSE, "gap") }

\* columns of a file of several components
MixedCols ==
    { Col("scat", Absent, Absent, 500, FALSE, "full"),
      Col("scat", "pm10", "arithmetic mean", 0, FALSE, "nan"),
      Col("sulphate", Absent, "median", 0, FALSE, "full"),
      Col("pm10_mass", Absent, "median", 0, FALSE, "nan") }

ColPools == {ScatCols, SulphateCols, MassCols, MixedCols}

SeqsUpTo(S, n) == UNION {[1..m -> S] : m \in 1..n}

\* lists without repetition
IsInjective(s) == \A a, b \in 1..Len(s) : s[a] = s[b] => a = b

VarLists == {s \in SeqsUpTo(VarNames, MaxVars) : IsInjective(s)}

Stations ==
    { [station_name |-> "Birkenes", lat |-> 58, lon |-> 8, alt |-> 190,
       instrument_name |-> "neph1"],
      [station_name |-> "Birkenes II", lat |-> 58, lon |-> 8, alt |-> 190,
       instrument_name |-> "neph1"],
      [station_name |-> "Jungfraujoch", lat |-> 46, lon |-> 7, alt |-> 3578,
       instrument_name |-> "neph2"] }

MakeFile(cols, matrix, meta_statistics, station, n) ==
    [var_defs |-> cols,
     data |-> [k \in 1..Len(cols) |-> Samples(cols[k].pattern, n)],
     time_stamps |-> [k \in 1..n |-> k],
     matrix |-> matrix,
     meta_statistics |-> meta_statistics,
     station_name |-> station.station_name,
     station_latitude |-> station.lat,
     station_longitude |-> station.lon,
     station_altitude |-> station.alt,
     instrument_name |-> station.instrument_name]

AStation == CHOOSE st \in Stations : st.station_name = "Birkenes"

FileInputs ==
    { MakeFile(cols, matrix, ms, AStation, NumSamples) :
        cols \in UNION {SeqsUpTo(pool, MaxCols) : pool \in ColPools},
        matrix \in {"aerosol", "precip"},
        ms \in {Absent, "arithmetic mean"} }

NoFile == MakeFile(<<>>, Absent, Absent, AStation, 0)
NoOutcome == Raised(Absent)

----------------------------------------------------------------------------
(* State machine of one call of read_file *)

InitFile ==
    /\ file \in FileInputs
    /\ vars_to_read \in VarLists
    /\ loaded_aerocom_vars = EmptyMap
    /\ var_cols = EmptyMap
    /\ var_order = <<>>
    /\ fpc = "resolve"
    /\ outcome = NoOutcome

\* lines 490-548
ResolveColumns ==
    /\ fpc = "resolve"
    /\ LET r == ResolveAll(file, vars_to_read, loaded_aerocom_vars) IN
       /\ loaded_aerocom_vars' = r.cache
       /\ var_cols' = r.var_cols
       /\ var_order' = r.order
       /\ IF r.err # Absent
          THEN fpc' = "done" /\ outcome' = Raised(r.err)
          ELSE fpc' = "best" /\ outcome' = outcome
    /\ UNCHANGED <<file, vars_to_read>>

\* lines 550-554
FindBest ==
    /\ fpc = "best"
    /\ LET b == BestAll(file, var_order, var_cols) IN
       /\ var_cols' = b.var_cols
       /\ IF b.err # Absent
          THEN fpc' = "done" /\ outcome' = Raised(b.err)
          ELSE fpc' = "extract" /\ outcome' = outcome
    /\ UNCHANGED <<file, vars_to_read, loaded_aerocom_vars, var_order>>

\* lines 556-645
Extract ==
    /\ fpc = "extract"
    /\ outcome' = ExtractAll(file, var_order, var_cols)
    /\ fpc' = "done"
    /\ UNCHANGED <<file, vars_to_read, loaded_aerocom_vars, var_cols, var_order>>

----------------------------------------------------------------------------
(* UngriddedData: the table _data and its growth.                          *)
(* A row is {meta_key, time, lat, lon, alt, var_idx, value}.               *)

RowNo0 == 5
ChunkSize == 3

EmptyRow == [meta_key |-> NaN, time |-> NaN, lat |-> NaN, lon |-> NaN,
             alt |-> NaN, var_idx |-> NaN, value |-> NaN]

\* UngriddedData.add_chunk(size): at least one chunk is appended
add_chunk(d, size) ==
    LET n == IF size < ChunkSize THEN ChunkSize ELSE size IN
    d \o [k \in 1..n |-> EmptyRow]

\* mutant: add_chunk is called without the number of rows needed
Reserve_DefaultChunk(d, idx_, totnum) ==
    IF idx_ + totnum >= Len(d) THEN add_chunk(d, 0) ELSE d

\* read(), lines 758-763
Reserve(d, idx_, totnum) ==
    IF idx_ + totnum >= Len(d) THEN add_chunk(d, totnum) ELSE d

\* mutant: the table is not shortened
Trim_Keep(d, idx_) == d

\* read(), line 810: data_obj._data[:idx]
Trim(d, idx_) == SubSeq(d, 1, idx_)

----------------------------------------------------------------------------
(* ReadEbas.read, lines 736-807: append of one station record.             *)
(* st = [idx, meta_key, var_count_glob, var_idx, metadata, meta_idx, data, *)
(* written]                                                               *)
(* where written collects the (0-based) row numbers the loop assigned to.  *)

\* mutant: the global counter is advanced for every variable of every record
AssignVarIdx_CountAlways(st, var) ==
    IF var \notin DOMAIN st.var_idx
    THEN [st EXCEPT !.var_count_glob = @ + 1,
                    !.var_idx = [v \in DOMAIN st.var_idx \cup {var} |->
                                   IF v = var THEN st.var_count_glob + 1
                                   ELSE st.var_idx[v]]]
    ELSE [st EXCEPT !.var_count_glob = @ + 1]

\* lines 777-781 and 803-804
AssignVarIdx(st, var) ==
    IF var \notin DOMAIN st.var_idx
    THEN [st EXCEPT !.var_count_glob = @ + 1,
                    !.var_idx = [v \in DOMAIN st.var_idx \cup {var} |->
                                   IF v = var THEN st.var_count_glob + 1
                                   ELSE st.var_idx[v]]]
    ELSE st

\* mutant: the block of a variable starts one row, not num_times rows, after
\* the block of the variable before it
WriteVar_NoStride(st, f, rec, var_count, var) ==
    LET num_times == Len(rec.dtime)
        start == st.idx + var_count
        stop == start + num_times
        st1 == AssignVarIdx(st, var)
        row(r) == [meta_key |-> st.meta_key,
                   time |-> rec.dtime[r - start + 1],
                   lat |-> rec.stat_lat, lon |-> rec.stat_lon,
                   alt |-> rec.stat_alt,
                   var_idx |-> st1.var_idx[var],
                   value |-> f.data[rec.colnum[var]][r - start + 1]] IN
    [st1 EXCEPT
       !.data = [k \in 1..Len(st.data) |->
                   IF start <= k - 1 /\ k - 1 < stop THEN row(k - 1)
                   ELSE st.data[k]],
       !.meta_idx = SetItem(@, st.meta_key,
                            SetItem(@[st.meta_key], var, arange(start, stop))),
       !.written = @ \cup (start..(stop - 1))]

\* lines 773-799: the rows of one variable
WriteVar(st, f, rec, var_count, var) ==
    LET num_times == Len(rec.dtime)
        start == st.idx + var_count * num_times
        stop == start + num_times
        st1 == AssignVarIdx(st, var)
        row(r) == [meta_key |-> st.meta_key,
                   time |-> rec.dtime[r - start + 1],
                   lat |-> rec.stat_lat, lon |-> rec.stat_lon,
                   alt |-> rec.stat_alt,
                   var_idx |-> st1.var_idx[var],
                   value |-> f.data[rec.colnum[var]][r - start + 1]] IN
    [st1 EXCEPT
       !.data = [k \in 1..Len(st.data) |->
                   IF start <= k - 1 /\ k - 1 < stop THEN row(k - 1)
                   ELSE st.data[k]],
       !.meta_idx = SetItem(@, st.meta_key,
                            SetItem(@[st.meta_key], var, arange(start, stop))),
       !.written = @ \cup (start..(stop - 1))]

RECURSIVE WriteVars(_, _, _, _)
WriteVars(st, f, rec, var_count) ==
    IF var_count >= Len(rec.contains_vars) THEN st
    ELSE WriteVars(WriteVar(st, f, rec, var_count,
                            rec.contains_vars[var_count + 1]),
                   f, rec, var_count + 1)

MetaEntry(rec, filename) ==
    [station_name |-> rec.station_name, latitude |-> rec.stat_lat,
     longitude |-> rec.stat_lon, altitude |-> rec.stat_alt,
     instrument_name |-> rec.instrument_name, filename |-> filename,
     variables |-> rec.contains_vars]

\* mutant: the metadata key is not advanced after a record
AppendRecord_SameKey(st, f, rec, filename) ==
    LET num_times == Len(rec.dtime)
        totnum == num_times * Len(rec.contains_vars)
        st1 == [st EXCEPT !.metadata = Append(@, MetaEntry(rec, filename)),
                          !.meta_idx = SetItem(@, st.meta_key, EmptyMap),
                          !.data = Reserve(@, st.idx, totnum),
                          !.written = {}]
        st2 == WriteVars(st1, f, rec, 0) IN
    [st2 EXCEPT !.idx = @ + totnum]

AppendRecord(st, f, rec, filename) ==
    LET num_times == Len(rec.dtime)
        totnum == num_times * Len(rec.contains_vars)
        st1 == [st EXCEPT !.metadata = Append(@, MetaEntry(rec, filename)),
                          !.meta_idx = SetItem(@, st.meta_key, EmptyMap),
                          !.data = Reserve(@, st.idx, totnum),
                          !.written = {}]
        st2 == WriteVars(st1, f, rec, 0) IN
    [st2 EXCEPT !.idx = @ + totnum, !.meta_key = @ + 1]

----------------------------------------------------------------------------
(* UngriddedData.merge_common_meta(ignore_keys): records whose metadata    *)
(* agree on every key that is not ignored share one registry entry.        *)

SameMeta(m1, m2) ==
    /\ m1.station_name = m2.station_name
    /\ m1.latitude = m2.latitude
    /\ m1.longitude = m2.longitude
    /\ m1.altitude = m2.altitude
    /\ m1.instrument_name = m2.instrument_name
    /\ m1.variables = m2.variables

\* the first entry of the registry with the same metadata as entry k
FirstSame(md, k) == SetMin({j \in 1..k : SameMeta(md[j], md[k])})

\* the entries that stay, in order
KeptKeys(md) == {k \in 1..Len(md) : FirstSame(md, k) = k}

\* new key (0-based) of the old entry k (1-based)
NewKey(md, k) == Cardinality({j \in KeptKeys(md) : j < FirstSame(md, k)})

RECURSIVE KeptEntries(_, _)
KeptEntries(md, k) ==
    IF k > Len(md) THEN <<>>
    ELSE (IF k \in KeptKeys(md) THEN <<md[k]>> ELSE <<>>) \o KeptEntries(md, k + 1)

\* the row numbers under the old keys that end under the new key nk, in order
RECURSIVE MergedIdx(_, _, _, _, _)
MergedIdx(md, mi, nk, v, k) ==
    IF k > Len(md) THEN <<>>
    ELSE (IF NewKey(md, k) = nk /\ (k - 1) \in DOMAIN mi
             /\ v \in DOMAIN mi[k - 1]
          THEN mi[k - 1][v] ELSE <<>>) \o MergedIdx(md, mi, nk, v, k + 1)

\* the index registry of the merged entries
merge_meta_idx(md, mi) ==
    [nk \in {NewKey(md, k) : k \in 1..Len(md)} |->
       [v \in UNION {DOMAIN mi[k - 1] :
                       k \in {j \in 1..Len(md) : NewKey(md, j) = nk
                                                  /\ (j - 1) \in DOMAIN mi}} |->
          MergedIdx(md, mi, nk, v, 1)]]

merge_common_meta(md, d) ==
    [metadata |-> KeptEntries(md, 1),
     data |-> [r \in 1..Len(d) |->
                 IF d[r].meta_key = NaN THEN d[r]      \* row without record
                 ELSE [d[r] EXCEPT !.meta_key = NewKey(md, d[r].meta_key + 1)]]]

----------------------------------------------------------------------------
(* Inputs of read(): the file list of get_file_list and, per file, the     *)
(* variables to read from it.                                              *)

MaxFiles == 3

FileOf(cols, n, station) ==
    MakeFile(cols, "aerosol", Absent, station, n)

StationA == CHOOSE st \in Stations : st.station_name = "Birkenes"
StationB == CHOOSE st \in Stations : st.station_name = "Birkenes II"
StationC == CHOOSE st \in Stations : st.station_name = "Jungfraujoch"

FilePool ==
    { \* one variable, one column
      [f |-> FileOf(<<Col("scat", Absent, Absent, 500, FALSE, "full")>>,
                    NumSamples, StationA),
       vars |-> <<"scatc510aer">>],
      \* same record content under the alias of the station name
      [f |-> FileOf(<<Col("scat", Absent, Absent, 500, FALSE, "full")>>,
                    NumSamples, StationB),
       vars |-> <<"scatc510aer">>],
      \* two variables, two orders of request
      [f |-> FileOf(<<Col("sulphate", Absent, "median", 0, FALSE, "full"),
                      Col("scat", Absent, Absent, 520, FALSE, "gap"),
                      Col("scat", Absent, Absent, 600, FALSE, "full")>>,
                    NumSamples, StationC),
       vars |-> <<"concso4", "scatc510aer">>],
      [f |-> FileOf(<<Col("sulphate", Absent, "median", 0, FALSE, "full"),
                      Col("scat", Absent, Absent, 520, FALSE, "gap")>>,
                    1, StationC),
       vars |-> <<"scatc510aer", "concso4">>],
      \* a third variable; a second, empty column of the first
      [f |-> FileOf(<<Col("pm10_mass", Absent, "median", 0, FALSE, "gap"),
                      Col("scat", "pm10", "arithmetic mean", 0, FALSE, "nan")>>,
                    NumSamples, StationC),
       vars |-> <<"concpm10", "scatc510aer">>],
      \* no column of the variable: NotInFileError
      [f |-> FileOf(<<Col("pm10_mass", Absent, "median", 0, FALSE, "full")>>,
                    NumSamples, StationA),
       vars |-> <<"scatc510aer">>],
      \* only NaN: EbasFileError
      [f |-> FileOf(<<Col("scat", "pm10", "arithmetic mean", 0, FALSE, "nan")>>,
                    NumSamples, StationA),
       vars |-> <<"scatc510aer">>],
      \* two columns with a matrix, no preferred matrix: IOError
      [f |-> FileOf(<<Col("sulphate", "aerosol", "median", 0, FALSE, "full"),
                      Col("sulphate", "pm10", "median", 0, FALSE, "gap")>>,
                    NumSamples, StationA),
       vars |-> <<"concso4">>] }

FileLists == SeqsUpTo(FilePool, MaxFiles)

----------------------------------------------------------------------------
(* State machine of read() *)

InitStore ==
    /\ i = 0
    /\ idx = 0
    /\ meta_key = 0
    /\ var_count_glob = 0 - 1
    /\ var_idx = EmptyMap
    /\ metadata = <<>>
    /\ meta_idx = EmptyMap
    /\ data = [k \in 1..RowNo0 |-> EmptyRow]
    /\ files_failed = <<>>
    /\ hist = <<>>

\* what read_file does for the file of this iteration
Current == ReadFile(files[i + 1], files_contain[i + 1], loaded_aerocom_vars)

Store == [idx |-> idx, meta_key |-> meta_key, var_count_glob |-> var_count_glob,
          var_idx |-> var_idx, metadata |-> metadata, meta_idx |-> meta_idx,
          data |-> data,
          written |-> {}]

\* lines 715-723 and 732-807: a file that read_file returns a record for
IngestFile ==
    /\ rpc = "loop" /\ i < Len(files)
    /\ \E cur \in {Current} :
          /\ cur.outcome.status = "ok"
          /\ \E st \in {AppendRecord(Store, files[i + 1], cur.outcome, i)} :
                /\ idx' = st.idx
                /\ meta_key' = st.meta_key
                /\ var_count_glob' = st.var_count_glob
                /\ var_idx' = st.var_idx
                /\ metadata' = st.metadata
                /\ meta_idx' = st.meta_idx
                /\ data' = st.data
                /\ hist' = Append(hist, [status |-> "ok", meta_key |-> meta_key,
                                         written |-> st.written,
                                         capacity |-> Len(st.data),
                                         record |-> cur.outcome])
          /\ loaded_aerocom_vars' = cur.cache
    /\ i' = i + 1
    /\ UNCHANGED <<files, files_contain, files_failed, rpc>>

\* lines 724-729: the errors read() catches
SkipFailedFile ==
    /\ rpc = "loop" /\ i < Len(files)
    /\ \E cur \in {Current} :
          /\ cur.outcome.status \in CaughtErrors
          /\ hist' = Append(hist, [status |-> cur.outcome.status,
                                   meta_key |-> NaN, written |-> {},
                                   capacity |-> Len(data),
                                   record |-> cur.outcome])
          /\ loaded_aerocom_vars' = cur.cache
    /\ files_failed' = Append(files_failed, i)
    /\ i' = i + 1
    /\ UNCHANGED <<files, files_contain, idx, meta_key, var_count_glob, var_idx,
                   metadata, meta_idx, data, rpc>>

\* any other exception of read_file leaves read()
AbortOnError ==
    /\ rpc = "loop" /\ i < Len(files)
    /\ \E cur \in {Current} :
          /\ cur.outcome.status \notin CaughtErrors \cup {"ok"}
          /\ hist' = Append(hist, [status |-> cur.outcome.status,
                                   meta_key |-> NaN, written |-> {},
                                   capacity |-> Len(data),
                                   record |-> cur.outcome])
          /\ loaded_aerocom_vars' = cur.cache
    /\ rpc' = "aborted"
    /\ UNCHANGED <<files, files_contain, i, idx, meta_key, var_count_glob,
                   var_idx, metadata, meta_idx, data, files_failed>>

\* lines 809-815
Finalize ==
    /\ rpc = "loop" /\ i = Len(files)
    /\ \E m \in {merge_common_meta(metadata, Trim(data, idx))} :
          /\ data' = m.data
          /\ metadata' = m.metadata
    /\ meta_idx' = merge_meta_idx(metadata, meta_idx)
    /\ rpc' = "done"
    /\ UNCHANGED <<files, files_contain, i, idx, meta_key, var_count_glob,
                   var_idx, files_failed, hist, loaded_aerocom_vars>>

----------------------------------------------------------------------------
(* helpers.merge_station_data(stats, var_name, pref_attr, sort_by_largest, *)
(* fill_missing_nan).  A StationData object is a record:                   *)
(*   has_var      var_name in stat                                         *)
(*   has_pref     pref_attr in stat;  pref: its value                      *)
(*   kind         "series" (pandas Series), "array" (convertible by        *)
(*                _to_ts_helper) or "bad" (conversion fails)               *)
(*   has_ts_type  get_var_ts_type succeeds                                 *)
(*   is_3d        check_if_3d(var_name);  has_err: var_name in data_err    *)
(*   data         the series: a function from time stamps to values        *)
(*   altitude, values, errs   the profile of a 3d input                    *)

NoIdentity == [name |-> Absent, lat |-> 0, lon |-> 0, alt |-> 0]

NoStation == [is_set |-> FALSE, data |-> EmptyMap, overlap |-> {},
              is_profile |-> FALSE, grid |-> <<>>, errgrid |-> <<>>,
              times |-> <<>>, sources |-> <<>>, station |-> NoIdentity]

\* np.isclose(v, w, rtol=1e-2): |v - w| <= rtol * |w|
IsClose(v, w) == 100 * Abs(v - w) <= Abs(w)

\* station identity (station_name, latitude, longitude, altitude) of the
\* running result and of the incoming input: the same name, the
\* coordinates within tolerance
SameStation(a, b) ==
    /\ a.name = b.name
    /\ IsClose(a.lat, b.lat)
    /\ IsClose(a.lon, b.lon)
    /\ IsClose(a.alt, b.alt)

\* StationData.merge_other / merge_meta_same_station: inputs of different
\* station identity are not merged
IdentityCheck(m, other) ==
    IF SameStation(m.station, other.station) THEN Absent ELSE "IdentityError"

\* the check of one input in the first loop (lines 177-200): error or Absent
CheckStat(stat, o) ==
    IF ~stat.has_var THEN "DataCoverageError"
    ELSE IF o.pref_attr /\ ~stat.has_pref THEN "MetaDataError"
    ELSE IF stat.kind # "series"
         THEN (IF stat.kind = "bad" THEN "ValueError" ELSE Absent)
    ELSE IF o.fill_missing_nan /\ ~stat.has_ts_type THEN "MetaDataError"
    ELSE Absent

\* lines 176-208: st = [is_3d, has_errs, err]
RECURSIVE CheckLoop(_, _, _, _)
CheckLoop(st, ss, o, k) ==
    IF k > Len(ss) \/ st.err # Absent THEN st
    ELSE LET e == CheckStat(ss[k], o) IN
         IF e # Absent THEN [st EXCEPT !.err = e]
         ELSE IF ss[k].is_3d
              THEN CheckLoop([st EXCEPT !.is_3d = TRUE,
                                 !.has_errs = @ \/ ss[k].has_err], ss, o, k + 1)
              ELSE IF st.is_3d
                   THEN [st EXCEPT !.err = "ValueError"]
                   ELSE CheckLoop([st EXCEPT !.has_errs = @ \/ ss[k].has_err],
                                  ss, o, k + 1)

CheckInputs_FirstOnly(ss, o) ==
    CheckLoop([is_3d |-> FALSE, has_errs |-> FALSE, err |-> Absent],
              <<ss[1]>>, o, 1)

CheckInputs(ss, o) ==
    CheckLoop([is_3d |-> FALSE, has_errs |-> FALSE, err |-> Absent], ss, o, 1)

\* len(s[var_name].dropna())
NumValid(stat) == Cardinality({t \in DOMAIN stat.data : stat.data[t] # NaN})

\* lines 211-214: the sort key
SortKey(stat, o) == IF o.pref_attr THEN stat.pref ELSE NumValid(stat)

\* list.sort(key=...): stable, ascending
RECURSIVE InsertSorted(_, _, _)
InsertSorted(sorted, x, o) ==
    IF sorted = <<>> THEN <<x>>
    ELSE IF SortKey(sorted[Len(sorted)], o) <= SortKey(x, o)
         THEN Append(sorted, x)
         ELSE Append(InsertSorted(SubSeq(sorted, 1, Len(sorted) - 1), x, o),
                     sorted[Len(sorted)])

RECURSIVE StableSort(_, _, _)
StableSort(ss, o, k) ==
    IF k = 0 THEN <<>>
    ELSE InsertSorted(StableSort(ss, o, k - 1), ss[k], o)

Reverse(ss) == [k \in 1..Len(ss) |-> ss[Len(ss) + 1 - k]]

\* mutant: sort_by_largest is not looked at
OrderStats_NoReverse(ss, o) == StableSort(ss, o, Len(ss))

\* lines 211-217
OrderStats(ss, o) ==
    LET sorted == StableSort(ss, o, Len(ss)) IN
    IF o.sort_by_largest THEN Reverse(sorted) ELSE sorted

SeedOf_Last(ss) == ss[Len(ss)]

\* line 220: merged = stats.pop(0)
SeedOf(ss) == ss[1]
RestOf_None(ss) == <<>>

RestOf(ss) == Tail(ss)

AsMerged_Empty(stat) == [NoStation EXCEPT !.is_set = TRUE,
                                         !.sources = <<stat>>,
                                         !.station = stat.station]

AsMerged(stat) == [NoStation EXCEPT !.is_set = TRUE, !.data = stat.data,
                                   !.sources = <<stat>>,
                                   !.station = stat.station]

\* StationData.merge_other(other, var_name): time stamps in both are
\* overlaps, the value replaced goes to the overlap series and the incoming
\* value wins; time stamps only in the incoming input are added.
merge_other(m, other) ==
    LET both == DOMAIN m.data \cap DOMAIN other.data IN
    [m EXCEPT
       !.data = [t \in DOMAIN m.data \cup DOMAIN other.data |->
                   IF t \in DOMAIN other.data THEN other.data[t] ELSE m.data[t]],
       !.overlap = @ \cup {<<t, m.data[t]>> : t \in both},
       !.sources = Append(@, other)]

\* StationData.insert_nans_timeseries(var_name): the series on the regular
\* grid of its resolution, missing markers at the grid points not observed
insert_nans_timeseries(m) ==
    IF m.is_profile \/ DOMAIN m.data = {} THEN m
    ELSE LET lo == SetMin(DOMAIN m.data)
             hi == CHOOSE t \in DOMAIN m.data : \A u \in DOMAIN m.data : u <= t IN
         [m EXCEPT !.data = [t \in lo..hi |->
                               IF t \in DOMAIN m.data THEN m.data[t] ELSE NaN]]

----------------------------------------------------------------------------
(* merge_station_data, lines 225-264: profile data *)

\* const.make_default_vert_grid(): the canonical vertical grid
VertGrid == <<0, 5, 10, 15, 20>>

\* np.interp(x, xp, fp) for increasing xp: linear between the points, the
\* first / last value of fp outside of them
Interp(x, xp, fp) ==
    IF x <= xp[1] THEN fp[1]
    ELSE IF x >= xp[Len(xp)] THEN fp[Len(fp)]
    ELSE LET k == CHOOSE j \in 1..(Len(xp) - 1) : xp[j] <= x /\ x < xp[j + 1] IN
         fp[k] + ((fp[k + 1] - fp[k]) * (x - xp[k])) \div (xp[k + 1] - xp[k])

InterpOnGrid(xp, fp) == [l \in 1..Len(VertGrid) |-> Interp(VertGrid[l], xp, fp)]

\* lines 228-234: error of the time check of one input, or Absent
ProfileTimeCheck(stat) ==
    IF Cardinality(stat.ptimes) # 1 THEN "NotImplementedError" ELSE Absent

\* lines 243-255 for one input: error or Absent
ProfileColumnError(stat, has_errs) ==
    IF ~stat.is_3d THEN "ValueError"          \* np.interp on a scalar altitude
    ELSE IF has_errs /\ ~stat.has_err THEN "KeyError"
    ELSE Absent

\* lines 243-255, pass k of the loop: the metadata of input k > 1 is merged
\* into the first input, then the values are interpolated
ProfileInputError(ss, k, has_errs) ==
    IF k > 1 /\ IdentityCheck(AsMerged(ss[1]), ss[k]) # Absent
    THEN IdentityCheck(AsMerged(ss[1]), ss[k])
    ELSE ProfileColumnError(ss[k], has_errs)

\* d.sortby('time'): the positions of the inputs in ascending order of time
RECURSIVE InsertByTime(_, _, _)
InsertByTime(sorted, k, tm) ==
    IF sorted = <<>> THEN <<k>>
    ELSE IF tm[sorted[Len(sorted)]] <= tm[k]
         THEN Append(sorted, k)
         ELSE Append(InsertByTime(SubSeq(sorted, 1, Len(sorted) - 1), k, tm),
                     sorted[Len(sorted)])

RECURSIVE SortByTime(_, _)
SortByTime(tm, k) ==
    IF k = 0 THEN <<>> ELSE InsertByTime(SortByTime(tm, k - 1), k, tm)

TimeOf(stat) == CHOOSE t \in stat.ptimes : TRUE

\* [err, merged]
MergeProfile(ss, has_errs) ==
    IF \E k \in 1..Len(ss) : ProfileTimeCheck(ss[k]) # Absent
    THEN [err |-> "NotImplementedError", merged |-> NoStation]
    ELSE IF \E k \in 1..Len(ss) : ProfileInputError(ss, k, has_errs) # Absent
    THEN LET k0 == SetMin({k \in 1..Len(ss) :
                             ProfileInputError(ss, k, has_errs) # Absent}) IN
         [err |-> ProfileInputError(ss, k0, has_errs), merged |-> NoStation]
    ELSE LET tm == [k \in 1..Len(ss) |-> TimeOf(ss[k])]
             perm == SortByTime(tm, Len(ss)) IN
         [err |-> Absent,
          merged |->
            [NoStation EXCEPT
               !.is_set = TRUE, !.is_profile = TRUE,
               !.station = ss[1].station,
               !.times = [c \in 1..Len(ss) |-> tm[perm[c]]],
               !.grid = [c \in 1..Len(ss) |->
                           InterpOnGrid(ss[perm[c]].altitude, ss[perm[c]].values)],
               \* _data_err is filled (lines 252-255) and not stored: the
               \* result, the first input, keeps its own errors, one
               \* column on its native levels
               !.errgrid = IF ss[1].has_err THEN <<ss[1].errs>> ELSE <<>>,
               !.sources = ss]]

----------------------------------------------------------------------------
(* Inputs of merge_station_data *)

MaxStats == 3

\* station identity; coordinates in 1/100 degree, altitude in m
HomeStation == [name |-> "Jungfraujoch", lat |-> 4655, lon |-> 799, alt |-> 3578]

Flat(pref, d) ==
    [station |-> HomeStation, has_var |-> TRUE, has_pref |-> TRUE, pref |-> pref, kind |-> "series",
     has_ts_type |-> TRUE, is_3d |-> FALSE, has_err |-> FALSE, data |-> d,
     ptimes |-> DOMAIN d, altitude |-> <<>>, values |-> <<>>, errs |-> <<>>]

Profile(t, alt, vals, errs) ==
    [station |-> HomeStation, has_var |-> TRUE, has_pref |-> TRUE, pref |-> 1, kind |-> "series",
     has_ts_type |-> TRUE, is_3d |-> TRUE, has_err |-> errs # <<>>,
     data |-> EmptyMap, ptimes |-> {t}, altitude |-> alt, values |-> vals,
     errs |-> errs]

\* the series {t1: 9, t3: 3}, {t1: 1, t2: 2}, ... as functions
SeriesB == [t \in {1, 3} |-> IF t = 1 THEN 9 ELSE 3]
SeriesA == [t \in {1, 2} |-> t]
SeriesC == [t \in {2, 3} |-> IF t = 2 THEN NaN ELSE 7]
SeriesD == [t \in {2} |-> 5]

StatPool ==
    { Flat(1, SeriesB), Flat(2, SeriesA), Flat(2, SeriesB), Flat(1, SeriesA),
      Flat(3, SeriesC),
      [Flat(1, SeriesA) EXCEPT !.has_var = FALSE],
      [Flat(1, SeriesA) EXCEPT !.has_pref = FALSE],
      [Flat(2, SeriesB) EXCEPT !.kind = "array", !.has_ts_type = FALSE],
      [Flat(2, SeriesB) EXCEPT !.kind = "bad"],
      [Flat(1, SeriesA) EXCEPT !.has_ts_type = FALSE],
      Profile(1, <<0, 10, 20>>, <<2, 4, 6>>, <<>>),
      Profile(2, <<5, 15>>, <<8, 10>>, <<2, 4>>),
      Flat(1, SeriesD),
      [Flat(2, SeriesA) EXCEPT !.station.name = "Birkenes"],
      [Flat(1, SeriesB) EXCEPT !.station.lat = 5800],
      [Flat(2, SeriesA) EXCEPT !.station.lat = 4660, !.station.alt = 3580],
      [Profile(2, <<5, 15>>, <<8, 10>>, <<>>) EXCEPT !.station.alt = 190] }

MergeOptions == [pref_attr : BOOLEAN, sort_by_largest : BOOLEAN,
                 fill_missing_nan : BOOLEAN]

----------------------------------------------------------------------------
(* State machine of merge_station_data *)

MCheck_FlatOnly ==
    /\ mpc = "check"
    /\ \E c \in {CheckInputs(stats, opts)} :
          IF c.err # Absent
          THEN /\ merr' = c.err /\ mpc' = "done"
          ELSE /\ merr' = merr
               /\ mpc' = "order"
    /\ UNCHANGED <<stats, opts, work, merged>>

\* lines 175-210
MCheck ==
    /\ mpc = "check"
    /\ \E c \in {CheckInputs(stats, opts)} :
          IF c.err # Absent
          THEN /\ merr' = c.err /\ mpc' = "done"
          ELSE /\ merr' = merr
               /\ mpc' = IF c.is_3d THEN "profile" ELSE "order"
    /\ UNCHANGED <<stats, opts, work, merged>>

\* lines 211-217
MOrder ==
    /\ mpc = "order"
    /\ work' = OrderStats(stats, opts)
    /\ mpc' = "seed"
    /\ UNCHANGED <<stats, opts, merged, merr>>

\* lines 219-220
MSeed ==
    /\ mpc = "seed"
    /\ merged' = AsMerged(SeedOf(work))
    /\ work' = RestOf(work)
    /\ mpc' = "merge"
    /\ UNCHANGED <<stats, opts, merr>>

\* lines 222-223: one pass of the loop
MMergeNext ==
    /\ mpc = "merge" /\ work # <<>>
    /\ \E e \in {IdentityCheck(merged, work[1])} :
          IF e # Absent
          THEN /\ merr' = e /\ mpc' = "done"
               /\ UNCHANGED <<merged, work>>
          ELSE /\ merged' = merge_other(merged, work[1])
               /\ work' = Tail(work)
               /\ UNCHANGED <<mpc, merr>>
    /\ UNCHANGED <<stats, opts>>

\* lines 225-264
MProfile ==
    /\ mpc = "profile"
    /\ \E r \in {MergeProfile(stats, CheckInputs(stats, opts).has_errs)} :
          /\ merr' = r.err
          /\ merged' = r.merged
          /\ mpc' = IF r.err # Absent THEN "done" ELSE "fill"
    /\ UNCHANGED <<stats, opts, work>>

\* lines 266-268
MReturn ==
    /\ \/ mpc = "merge" /\ work = <<>>
       \/ mpc = "fill"
    /\ merged' = IF opts.fill_missing_nan THEN insert_nans_timeseries(merged)
                 ELSE merged
    /\ mpc' = "done"
    /\ UNCHANGED <<stats, opts, work, merr>>

----------------------------------------------------------------------------
(* ReadEbas._merge_lists(lists_per_var), lines 162-204.  A dictionary is   *)
(* the list of its items (var, lst) in insertion order; the keys are       *)
(* distinct.  lists is [dict, is_copy]: the dictionary the loops work on   *)
(* and whether it is an object of its own or the one of the caller.        *)

\* mutant: the loops work on the dictionary of the caller
deepcopy_Alias(d) == [dict |-> d, is_copy |-> FALSE]

\* line 182: lists = deepcopy(lists_per_var)
deepcopy(d) == [dict |-> d, is_copy |-> TRUE]

\* other_lst.pop(other_lst.index(fpath)): the first occurrence is removed
RemoveFirst(lst, x) ==
    LET k == IndexOf(lst, x) IN
    SubSeq(lst, 1, k - 1) \o SubSeq(lst, k + 1, Len(lst))

\* lines 189-195: the other variables whose list holds fpath, in the order
\* of the dictionary
RECURSIVE OtherVars(_, _, _, _)
OtherVars(d, var, fpath, k) ==
    IF k > Len(d) THEN <<>>
    ELSE (IF d[k].var # var /\ fpath \in Range(d[k].lst)
          THEN <<d[k].var>> ELSE <<>>)
         \o OtherVars(d, var, fpath, k + 1)

\* lines 189-195: fpath is taken out of the lists of the other variables
PopFromOthers(d, var, fpath) ==
    [k \in 1..Len(d) |->
        IF d[k].var # var /\ fpath \in Range(d[k].lst)
        THEN [d[k] EXCEPT !.lst = RemoveFirst(@, fpath)]
        ELSE d[k]]

MappedPaths(m) == {m[k].path : k \in 1..Len(m)}

\* Inputs of _merge_lists: per variable a list of paths, with and without
\* repetitions
MaxListLen == 2

Paths == {"a.nas", "b.nas"}

PathLists == {<<>>} \cup SeqsUpTo(Paths, MaxListLen)

ListInputs ==
    UNION {{[k \in 1..Len(vl) |-> [var |-> vl[k], lst |-> ll[k]]] :
              ll \in [1..Len(vl) -> PathLists]} : vl \in VarLists}

NoLists == [dict |-> <<>>, is_copy |-> TRUE]

ListsIdle ==
    /\ lists_per_var = <<>> /\ lists = NoLists /\ mapping = <<>>
    /\ var_pos = 0 /\ path_pos = 0 /\ lpc = "idle"

\* the variables of read() that _merge_lists does not write
rrest == <<i, idx, meta_key, var_count_glob, var_idx, metadata, meta_idx, data,
           files_failed, rpc, hist>>

\* what the caller sees of its dictionary after the loops changed d
CallerDict(d) == IF lists.is_copy THEN lists_per_var ELSE d

\* lines 183-184
MLCopy ==
    /\ lpc = "start"
    /\ lists' = deepcopy(lists_per_var)
    /\ mapping' = <<>>
    /\ var_pos' = 1 /\ path_pos' = 1
    /\ lpc' = "loop"
    /\ UNCHANGED <<lists_per_var, files, files_contain>>

\* lines 185-196: one pass of the loop over the paths of a variable
MLPath ==
    /\ lpc = "loop" /\ var_pos <= Len(lists.dict)
    /\ path_pos <= Len(lists.dict[var_pos].lst)
    /\ LET var == lists.dict[var_pos].var
           fpath == lists.dict[var_pos].lst[path_pos] IN
       /\ fpath \notin MappedPaths(mapping)
       /\ mapping' = Append(mapping,
                            [path |-> fpath,
                             vars |-> <<var>> \o OtherVars(lists.dict, var, fpath, 1)])
       /\ \E d \in {PopFromOthers(lists.dict, var, fpath)} :
             /\ lists' = [lists EXCEPT !.dict = d]
             /\ lists_per_var' = CallerDict(d)
    /\ path_pos' = path_pos + 1
    /\ UNCHANGED <<var_pos, lpc, files, files_contain>>

\* lines 187-188: the path is in mapping already
MLRaise ==
    /\ lpc = "loop" /\ var_pos <= Len(lists.dict)
    /\ path_pos <= Len(lists.dict[var_pos].lst)
    /\ lists.dict[var_pos].lst[path_pos] \in MappedPaths(mapping)
    /\ lpc' = "raised"
    /\ UNCHANGED <<lists_per_var, lists, mapping, var_pos, path_pos, files,
                   files_contain>>

\* line 185: the next variable of the dictionary
MLNextVar ==
    /\ lpc = "loop" /\ var_pos <= Len(lists.dict)
    /\ path_pos > Len(lists.dict[var_pos].lst)
    /\ var_pos' = var_pos + 1 /\ path_pos' = 1
    /\ UNCHANGED <<lists_per_var, lists, mapping, lpc, files, files_contain>>

\* lines 197-204
MLReturn ==
    /\ lpc = "loop" /\ var_pos > Len(lists.dict)
    /\ files' = [k \in 1..Len(mapping) |-> mapping[k].path]
    /\ files_contain' = [k \in 1..Len(mapping) |-> mapping[k].vars]
    /\ lpc' = "done"
    /\ UNCHANGED <<lists_per_var, lists, mapping, var_pos, path_pos>>

----------------------------------------------------------------------------
(* Specifications *)

MergeIdle ==
    /\ stats = <<>> /\ work = <<>> /\ merged = NoStation
    /\ opts = [pref_attr |-> FALSE, sort_by_largest |-> FALSE,
               fill_missing_nan |-> FALSE]
    /\ mpc = "idle" /\ merr = Absent

\* read(): a batch of files
Init ==
    /\ \E fl \in FileLists :
          /\ files = [k \in 1..Len(fl) |-> fl[k].f]
          /\ files_contain = [k \in 1..Len(fl) |-> fl[k].vars]
    /\ InitStore
    /\ rpc = "loop"
    /\ loaded_aerocom_vars = EmptyMap
    /\ file = NoFile /\ vars_to_read = <<>> /\ var_cols = EmptyMap
    /\ var_order = <<>> /\ fpc = "idle" /\ outcome = NoOutcome
    /\ MergeIdle
    /\ ListsIdle

Next ==
    \/ IngestFile /\ UNCHANGED <<flocal, mvars, lvars>>
    \/ SkipFailedFile /\ UNCHANGED <<flocal, mvars, lvars>>
    \/ AbortOnError /\ UNCHANGED <<flocal, mvars, lvars>>
    \/ Finalize /\ UNCHANGED <<flocal, mvars, lvars>>

Spec == Init /\ [][Next]_vars

\* read_file: one file
InitReadFile ==
    /\ InitFile
    /\ files = <<>> /\ files_contain = <<>>
    /\ InitStore
    /\ rpc = "idle"
    /\ MergeIdle
    /\ ListsIdle

NextFile ==
    \/ ResolveColumns /\ UNCHANGED <<rvars, mvars, lvars>>
    \/ FindBest /\ UNCHANGED <<rvars, mvars, lvars>>
    \/ Extract /\ UNCHANGED <<rvars, mvars, lvars>>

SpecFile == InitReadFile /\ [][NextFile]_vars

\* merge_station_data: one group of inputs
InitMerge ==
    /\ stats \in SeqsUpTo(StatPool, MaxStats)
    /\ opts \in MergeOptions
    /\ work = <<>> /\ merged = NoStation /\ mpc = "check" /\ merr = Absent
    /\ files = <<>> /\ files_contain = <<>>
    /\ InitStore
    /\ rpc = "idle"
    /\ loaded_aerocom_vars = EmptyMap
    /\ file = NoFile /\ vars_to_read = <<>> /\ var_cols = EmptyMap
    /\ var_order = <<>> /\ fpc = "idle" /\ outcome = NoOutcome
    /\ ListsIdle

NextMerge ==
    \/ MCheck /\ UNCHANGED <<fvars, rvars, lvars>>
    \/ MOrder /\ UNCHANGED <<fvars, rvars, lvars>>
    \/ MSeed /\ UNCHANGED <<fvars, rvars, lvars>>
    \/ MMergeNext /\ UNCHANGED <<fvars, rvars, lvars>>
    \/ MProfile /\ UNCHANGED <<fvars, rvars, lvars>>
    \/ MReturn /\ UNCHANGED <<fvars, rvars, lvars>>

SpecMerge == InitMerge /\ [][NextMerge]_vars

\* _merge_lists: one dictionary of file lists; files holds the paths
InitLists ==
    /\ lists_per_var \in ListInputs
    /\ lists = NoLists /\ mapping = <<>>
    /\ var_pos = 0 /\ path_pos = 0 /\ lpc = "start"
    /\ files = <<>> /\ files_contain = <<>>
    /\ InitStore
    /\ rpc = "idle"
    /\ loaded_aerocom_vars = EmptyMap
    /\ file = NoFile /\ vars_to_read = <<>> /\ var_cols = EmptyMap
    /\ var_order = <<>> /\ fpc = "idle" /\ outcome = NoOutcome
    /\ MergeIdle

NextLists ==
    \/ MLCopy /\ UNCHANGED <<fvars, rrest, mvars>>
    \/ MLPath /\ UNCHANGED <<fvars, rrest, mvars>>
    \/ MLRaise /\ UNCHANGED <<fvars, rrest, mvars>>
    \/ MLNextVar /\ UNCHANGED <<fvars, rrest, mvars>>
    \/ MLReturn /\ UNCHANGED <<fvars, rrest, mvars>>

SpecLists == InitLists /\ [][NextLists]_vars

----------------------------------------------------------------------------
(* Properties of read() *)

OkFiles == {k \in 1..Len(hist) : hist[k].status = "ok"}

RowsOf(k) == Len(hist[k].record.dtime) * Len(hist[k].record.contains_vars)

RECURSIVE SumRows(_)
SumRows(k) == IF k = 0 THEN 0
              ELSE (IF hist[k].status = "ok" THEN RowsOf(k) ELSE 0) + SumRows(k - 1)

\* C3: after read() has finished, the table has exactly as many rows as the
\* ingested records appended: the sum over the records of (number of time
\* stamps x number of variables of the record); no unused row remains.
C3_ExactRows ==
    rpc = "done" =>
        /\ Len(data) = SumRows(Len(hist))
        /\ \A r \in 1..Len(data) : data[r] # EmptyRow

\* the table grew beyond its initial capacity and was trimmed
C3_Witness ==
    /\ rpc = "done"
    /\ Len(data) > RowNo0
    /\ Cardinality(OkFiles) >= 2

\* variable names of the ingested records, in order of appearance
RECURSIVE SeenVars(_)
SeenVars(k) ==
    IF k = 0 THEN <<>>
    ELSE SeenVars(k - 1) \o
         (IF hist[k].status = "ok" THEN hist[k].record.contains_vars ELSE <<>>)

\* position (0-based) of the first occurrence of v in the list s
FirstPos(s, v) == IndexOf(s, v) - 1

\* number of distinct names before the first occurrence of v
Rank(s, v) == Cardinality({s[j] : j \in 1..FirstPos(s, v)})

\* C4: variable names get the indices 0, 1, 2, ... in the order of their first
\* appearance in the ingested records, no two names share an index, the rows
\* written for a variable carry the registered index, and an index once
\* assigned never changes.
C4_VarIdxState ==
    LET seen == SeenVars(Len(hist)) IN
    /\ DOMAIN var_idx = Range(seen)
    /\ \A v \in DOMAIN var_idx : var_idx[v] = Rank(seen, v)
    /\ \A v, w \in DOMAIN var_idx : var_idx[v] = var_idx[w] => v = w
    /\ var_count_glob = Cardinality(DOMAIN var_idx) - 1
    /\ \A k \in OkFiles : \A n \in 1..Len(hist[k].record.contains_vars) :
          LET num_times == Len(hist[k].record.dtime)
              first == SetMin(hist[k].written) + (n - 1) * num_times IN
          \A r \in first..(first + num_times - 1) :
              data[r + 1].var_idx = var_idx[hist[k].record.contains_vars[n]]

C4_VarIdxStable ==
    \A v \in DOMAIN var_idx : v \in DOMAIN var_idx' /\ var_idx'[v] = var_idx[v]

C4_VarIdx == [](C4_VarIdxState) /\ [][C4_VarIdxStable]_vars

\* a later file brings a new variable after one it shares with an earlier file
C4_Witness ==
    /\ Cardinality(DOMAIN var_idx) = 3
    /\ \E k \in OkFiles : \E n \in 2..Len(hist[k].record.contains_vars) :
          /\ var_idx[hist[k].record.contains_vars[n]]
               < var_idx[hist[k].record.contains_vars[n - 1]]

NumOkBefore(k) == Cardinality({j \in OkFiles : j < k})

\* C5 (as stated): after read() the metadata registry has exactly one entry
\* per successfully read file.
C5_OneEntryPerFile ==
    rpc = "done" => Len(metadata) = Cardinality(OkFiles)

\* C5 (amended): every ingested record gets a fresh meta_key 0, 1, 2, ...,
\* a failed file consumes none and writes no entry; at the end of the
\* ingestion loop the registry has one entry per successfully read file, and
\* merge_common_meta leaves one entry per group of records of equal metadata.
C5_MetaKeys ==
    /\ meta_key = Cardinality(OkFiles)
    /\ \A k \in OkFiles : hist[k].meta_key = NumOkBefore(k)
    /\ \A k \in 1..Len(hist) : k \notin OkFiles => hist[k].meta_key = NaN
    /\ rpc # "done" =>
          /\ Len(metadata) = Cardinality(OkFiles)
          /\ \A k \in OkFiles : metadata[hist[k].meta_key + 1].filename = k - 1
    /\ rpc = "done" =>
          /\ Len(metadata) <= Cardinality(OkFiles)
          /\ \A k \in OkFiles : \E e \in 1..Len(metadata) :
                SameMeta(metadata[e], MetaEntry(hist[k].record, k - 1))
          /\ \A a, b \in 1..Len(metadata) :
                SameMeta(metadata[a], metadata[b]) => a = b

\* a failed file lies between two ingested ones
C5_Witness ==
    /\ rpc = "loop"
    /\ \E a, b, c \in 1..Len(hist) :
          /\ a < b /\ b < c
          /\ a \in OkFiles /\ b \notin OkFiles /\ c \in OkFiles

\* C6: the logical length never exceeds the capacity and every row written
\* lies inside the capacity; before the end the capacity only grows, by at
\* least one chunk at a time; the table is shortened only by the final trim,
\* which leaves exactly the logical length.
C6_CapacityState ==
    /\ idx <= Len(data)
    /\ \A k \in 1..Len(hist) :
          \A r \in hist[k].written : 0 <= r /\ r < hist[k].capacity
    /\ rpc = "done" => Len(data) = idx

C6_CapacityStep ==
    /\ rpc' # "done" =>
          \/ Len(data') = Len(data)
          \/ Len(data') >= Len(data) + ChunkSize
    /\ Len(data') < Len(data) => rpc = "loop" /\ rpc' = "done"
    /\ rpc = "done" => data' = data

C6_Capacity == [](C6_CapacityState) /\ [][C6_CapacityStep]_vars

\* the table was extended twice, once by more than a chunk
C6_Witness ==
    /\ rpc = "loop"
    /\ \E a, b \in OkFiles :
          /\ a < b
          /\ hist[a].capacity > RowNo0
          /\ hist[b].capacity > hist[a].capacity
          /\ RowsOf(b) > ChunkSize

\* C7: a file whose ingestion fails with a per-file error (not found, no
\* usable data, malformed file, column resolution failure) is appended to
\* the failed-files list and the loop goes on with the next file.
C7_FailureIsolation ==
    \A k \in 1..Len(hist) :
        hist[k].status # "ok" =>
            /\ (k - 1) \in Range(files_failed)
            /\ rpc # "aborted"

----------------------------------------------------------------------------
(* Properties of read_file *)

\* C1: when the data vectors are extracted every resolved variable maps to
\* exactly one column; a variable without column is skipped or read_file
\* raises an explicit error, and the length check of the extraction loop
\* ('Something went wrong') never fails.
C1_OneColumn ==
    /\ fpc = "extract" =>
          /\ var_order # <<>>
          /\ \A v \in Range(var_order) : Len(var_cols[v]) = 1
    /\ outcome.status # "Exception"
    /\ (fpc = "done" /\ outcome.status = "ok") =>
          /\ Range(outcome.contains_vars) \subseteq Range(var_order)
          /\ \A v \in Range(outcome.contains_vars) :
                /\ var_cols[v] = <<outcome.colnum[v]>>
                /\ outcome.colnum[v] \in Range(get_var_cols(EbasVarInfo(v), file))

\* a variable with several columns left after the statistics tie-break
C1_Witness ==
    /\ fpc = "done" /\ outcome.status = "ok"
    /\ \E v \in Range(outcome.contains_vars) :
          LET info == EbasVarInfo(v)
              w == WavelengthStep(file, get_var_cols(info, file), VarWavelength(v)) IN
          /\ Len(w.matches) > 1
          /\ Len(StatisticsMatches(MatrixMatches(w.matches, info, file), info, file)) > 1

\* the file offers exactly three candidate columns, at 500, 520 and 600 nm,
\* for the variable with target wavelength 510 nm
WvlCase ==
    LET cand == get_var_cols(EbasVarInfo("scatc510aer"), file) IN
    /\ vars_to_read = <<"scatc510aer">>
    /\ Len(cand) = 3
    /\ {file.var_defs[cand[k]].wavelength : k \in 1..3} = {500, 520, 600}

ChosenWvl == file.var_defs[outcome.colnum["scatc510aer"]].wavelength

\* C8 (as stated): with candidate columns at 500, 520 and 600 nm, target
\* 510 nm and tolerance 50 nm the 520 nm column is selected.
C8_Selects520 ==
    (WvlCase /\ fpc = "done") => (outcome.status = "ok" /\ ChosenWvl = 520)

\* the first of the candidate columns at 500 and 520 nm in the order of the file
FirstNearest ==
    LET cand == get_var_cols(EbasVarInfo("scatc510aer"), file)
        near == {c \in Range(cand) : file.var_defs[c].wavelength \in {500, 520}} IN
    SetMin(near)

\* C8 (amended): the 500 nm and the 520 nm column are equally near to the
\* target (10 nm, inside [460, 560]); the resolver selects the one of the two
\* that comes first in the file, and never the 600 nm column.
C8_SelectsFirstNearest ==
    (WvlCase /\ fpc \in {"best", "extract", "done"}) =>
        /\ var_cols["scatc510aer"] = <<FirstNearest>>
        /\ fpc = "done" =>
              /\ outcome.status = "ok"
              /\ ChosenWvl \in {500, 520}
              /\ outcome.colnum["scatc510aer"] = FirstNearest

\* the 520 nm column precedes the 500 nm column and is selected
C8_Witness ==
    /\ WvlCase /\ fpc = "done" /\ outcome.status = "ok"
    /\ ChosenWvl = 520
    /\ file.var_defs[1].wavelength = 600

----------------------------------------------------------------------------
(* Properties of read_file: variables skipped and dropped *)

\* the wavelength step of one requested variable, taken alone
StepOf(v) ==
    WavelengthStep(file, get_var_cols(EbasVarInfo(v), file), VarWavelength(v))

NoCandidate(v) == get_var_cols(EbasVarInfo(v), file) = <<>>

\* the variable resolves to no column: no candidate, or none left by the
\* wavelength step
Unresolved(v) == NoCandidate(v) \/ StepOf(v).matches = <<>>

\* the first loop raises no error of its own (lines 515, 537)
NoStepError ==
    \A v \in Range(vars_to_read) : NoCandidate(v) \/ StepOf(v).err = Absent

RECURSIVE KeptVars(_)
KeptVars(k) ==
    IF k = 0 THEN <<>>
    ELSE IF AllNaN(file, var_cols[var_order[k]][1])
         THEN KeptVars(k - 1)
         ELSE Append(KeptVars(k - 1), var_order[k])

\* C16: in the extraction a resolved variable whose column is all NaN is
\* dropped (no value series, not in the variable list) and the others are
\* kept; the 'all columns NaN' error is raised if and only if every resolved
\* column is all NaN; every variable in the variable list of a returned
\* record has a value series.
C16_DropStep ==
    fpc = "extract" =>
        /\ outcome'.status = "EbasFileError"
              <=> \A v \in Range(var_order) : AllNaN(file, var_cols[v][1])
        /\ outcome'.status \in {"ok", "EbasFileError"}
        /\ outcome'.status = "ok" =>
              /\ outcome'.contains_vars = KeptVars(Len(var_order))
              /\ DOMAIN outcome'.colnum = Range(outcome'.contains_vars)
              /\ \A v \in Range(outcome'.contains_vars) :
                    /\ outcome'.colnum[v] = var_cols[v][1]
                    /\ ~AllNaN(file, outcome'.colnum[v])

----------------------------------------------------------------------------
(* Properties of the candidate filter and of the wavelength step *)

\* the candidates of the requested variable v in the file
Candidates(v) == get_var_cols(EbasVarInfo(v), file)

IsAscending(s) == \A a, b \in 1..Len(s) : a < b => s[a] < s[b]

\* name and matrix condition of the candidate filter
NameAndMatrixOk(v, c) ==
    LET info == EbasVarInfo(v)
        col == file.var_defs[c] IN
    /\ col.name \in info.component
    /\ \/ info.matrix = NoList
       \/ (IF col.matrix # Absent THEN col.matrix ELSE file.matrix)
             \in Range(info.matrix)

\* statistic condition on the statistics attribute of the column
StatisticOk(v, c) ==
    LET info == EbasVarInfo(v)
        col == file.var_defs[c] IN
    /\ col.statistics \notin IGNORE_STATISTICS
    /\ \/ info.statistics = NoList
       \/ col.statistics \in Range(info.statistics)

\* C18 as stated: column c is a candidate if and only if its name is
\* accepted, its effective matrix passes the matrix filter, its statistic is
\* not ignored and its statistic passes the statistic filter of the variable.
C18_CandidatesAsStated ==
    fpc # "resolve" =>
    \A v \in Range(vars_to_read) :
        LET cand == Range(Candidates(v)) IN
        \A c \in 1..Len(file.var_defs) :
            c \in cand <=> (NameAndMatrixOk(v, c) /\ StatisticOk(v, c))

\* C18: column c is a candidate if and only if its name is accepted, its
\* effective matrix (own attribute, else file default) passes the matrix
\* filter, and it either carries no statistics attribute or its statistic is
\* not ignored and passes the statistic filter of the variable; the
\* candidates are listed in ascending column order, each once.
C18_Candidates ==
    fpc # "resolve" =>
    \A v \in Range(vars_to_read) :
        LET cand == Candidates(v) IN
        /\ IsAscending(cand)
        /\ \A c \in 1..Len(file.var_defs) :
              c \in Range(cand)
                 <=> /\ NameAndMatrixOk(v, c)
                     /\ file.var_defs[c].statistics = Absent \/ StatisticOk(v, c)

\* a column without statistics attribute is a candidate of a variable with a
\* statistic filter, and a column of an ignored statistic is refused
C18_Witness ==
    /\ fpc # "resolve"
    /\ \E v \in Range(vars_to_read) : \E c \in 1..Len(file.var_defs) :
          /\ EbasVarInfo(v).statistics # NoList
          /\ file.var_defs[c].statistics = Absent
          /\ c \in Range(Candidates(v))
          /\ Len(Candidates(v)) >= 2

\* the columns left for variable v by the wavelength step (state after the
\* first loop of read_file)
KeptCols(v) == IF v \in DOMAIN var_cols THEN Range(var_cols[v]) ELSE {}

\* candidates of v that carry a wavelength inside the tolerance range
InRangeCols(v) ==
    {c \in Range(Candidates(v)) :
        /\ file.var_defs[c].wavelength # 0
        /\ WvlInRange(VarWavelength(v), file.var_defs[c].wavelength)}

WvlDistance(v, c) == Abs(file.var_defs[c].wavelength - VarWavelength(v))

\* C19: among the candidates that carry a wavelength, those outside the
\* tolerance range are discarded and of the rest exactly those of minimal
\* absolute distance to the target are kept, all of them (ties allowed, also
\* between a column below and a column above the target), whatever the
\* column order.
C19_KeepsAllNearest ==
    fpc = "best" =>
        \A v \in Range(vars_to_read) :
            VarWavelength(v) # 0 =>
                {c \in KeptCols(v) : file.var_defs[c].wavelength # 0}
                   = {c \in InRangeCols(v) :
                        \A d \in InRangeCols(v) : WvlDistance(v, c) <= WvlDistance(v, d)}

\* C20: every candidate column without wavelength attribute is still a
\* candidate after the wavelength step, whatever its position relative to
\* the candidates that carry a wavelength.
C20_NoWavelengthKept ==
    fpc = "best" =>
        \A v \in Range(vars_to_read) : \A c \in Range(Candidates(v)) :
            file.var_defs[c].wavelength = 0 => c \in KeptCols(v)

\* the candidates of v the wavelength loop stops at when v declares no
\* wavelength: columns with a wavelength attribute (line 515) and columns
\* with a location attribute (line 537)
Refused(v) ==
    {c \in Range(Candidates(v)) :
        file.var_defs[c].wavelength # 0 \/ file.var_defs[c].location}

\* C21 as stated: for a requested variable without declared wavelength the
\* wavelength step raises no error and all of its candidates, columns with a
\* wavelength attribute included, go on unchanged to the tie-break cascade.
C21_AllCandidatesPass ==
    fpc # "resolve" =>
    \A v \in Range(vars_to_read) :
        (VarWavelength(v) = 0 /\ ~NoCandidate(v)) =>
            /\ StepOf(v).err = Absent
            /\ outcome.status # "VariableDefinitionError"
            /\ fpc = "best" => (v \in DOMAIN var_cols /\ var_cols[v] = Candidates(v))

\* C21: for a requested variable without declared wavelength whose
\* candidates carry neither a wavelength nor a location attribute the step
\* raises no error and all candidates go on unchanged; otherwise the step
\* raises at the first such candidate in column order, the definition error
\* for a column with a wavelength attribute, and read_file ends with the
\* error of the first requested variable whose step raises.
C21_NoWavelengthDeclared ==
    fpc # "resolve" =>
    \A k \in 1..Len(vars_to_read) :
        LET v == vars_to_read[k] IN
        (VarWavelength(v) = 0 /\ ~NoCandidate(v)) =>
            IF Refused(v) = {}
            THEN /\ StepOf(v).err = Absent
                 /\ StepOf(v).matches = Candidates(v)
                 /\ fpc = "best" => (v \in DOMAIN var_cols
                                      /\ var_cols[v] = Candidates(v))
            ELSE /\ StepOf(v).err
                      = (IF file.var_defs[SetMin(Refused(v))].wavelength # 0
                         THEN "VariableDefinitionError"
                         ELSE "NotImplementedError")
                 /\ fpc \notin {"best", "extract"}
                 /\ (\A j \in 1..(k - 1) :
                        \/ NoCandidate(vars_to_read[j])
                        \/ StepOf(vars_to_read[j]).err = Absent)
                      => outcome.status = StepOf(v).err

\* a variable without declared wavelength: two candidates without wavelength
\* go on to the cascade
C21_Witness ==
    /\ fpc = "best"
    /\ \E v \in Range(vars_to_read) :
          /\ VarWavelength(v) = 0
          /\ Len(Candidates(v)) >= 2
          /\ var_cols[v] = Candidates(v)

----------------------------------------------------------------------------
(* Properties of _find_best_data_column *)

\* the columns handed to _find_best_data_column for variable v: the list
\* left by the wavelength step (var_cols[v] after the first loop)
CascadeInput(v) == IF fpc = "best" THEN var_cols[v] ELSE StepOf(v).matches

\* the first variable of the second loop with more than one column
FirstCascadeVar ==
    var_order[SetMin({k \in 1..Len(var_order) :
                        Len(CascadeInput(var_order[k])) > 1})]

\* the columns of cols whose matrix attribute is in the preference list of v
ListedMatrix(v, cols) ==
    {c \in Range(cols) :
        /\ file.var_defs[c].matrix # Absent
        /\ file.var_defs[c].matrix \in Range(EbasVarInfo(v).matrix)}

PrefIdx(pref, x) == SetMin({k \in 1..Len(pref) : pref[k] = x})

\* the columns of the lowest index in the matrix preference list, or all
\* columns if no matrix is in the list
BestMatrixCols(v, cols) ==
    LET listed == ListedMatrix(v, cols)
        pref == EbasVarInfo(v).matrix IN
    IF listed = {} THEN Range(cols)
    ELSE {c \in listed :
            \A d \in listed : PrefIdx(pref, file.var_defs[c].matrix)
                                 <= PrefIdx(pref, file.var_defs[d].matrix)}

\* the variable has no matrix preference and a column carries a matrix
\* attribute: lines 383-392 raise IOError
NoMatrixPreference(v, cols) ==
    /\ EbasVarInfo(v).matrix = NoList
    /\ \E c \in Range(cols) : file.var_defs[c].matrix # Absent

IsSubSeqOf(s, t) ==
    /\ Range(s) \subseteq Range(t)
    /\ \A a, b \in 1..Len(s) : a < b => s[a] < s[b]

\* a column has been selected for v by _find_best_data_column
Selected(v) ==
    \/ fpc = "extract"
    \/ fpc = "done" /\ outcome.status = "ok"

\* C22 as stated: with more than one candidate the matrix tie-break always
\* gives a non-empty subset of the candidates (no error), those of the
\* lowest index in the matrix preference list, or all of them if no
\* candidate's matrix is in the list.
C22_AlwaysSubset ==
    \A v \in Range(var_order) :
        LET cols == CascadeInput(v) IN
        Len(cols) > 1 =>
            /\ outcome.status # "IOError"
            /\ fpc = "best" =>
                  Range(MatrixMatches(cols, EbasVarInfo(v), file))
                     = BestMatrixCols(v, cols)
            /\ fpc = "extract" => Range(var_cols[v]) \subseteq BestMatrixCols(v, cols)

\* C22: with more than one candidate, and unless the variable has no matrix
\* preference list while a candidate carries a matrix attribute (then
\* IOError is raised and no column is selected), the matrix tie-break keeps
\* exactly the candidates whose own matrix attribute has the lowest index in
\* the preference list among all candidates, or all candidates if no
\* candidate's own attribute is in the list; the result is a non-empty
\* subset of the candidates in column order, and the column finally
\* selected is one of it.
C22_MatrixTieBreak ==
    \A v \in Range(var_order) :
        LET cols == CascadeInput(v) IN
        Len(cols) > 1 =>
            IF NoMatrixPreference(v, cols)
            THEN /\ ~Selected(v)
                 /\ fpc = "done" =>
                       /\ outcome.status \in {"IOError", "EbasFileError", "ValueError"}
                       /\ v = FirstCascadeVar => outcome.status = "IOError"
            ELSE /\ fpc = "best" =>
                       LET mm == MatrixMatches(cols, EbasVarInfo(v), file) IN
                       /\ Range(mm) = BestMatrixCols(v, cols)
                       /\ mm # <<>>
                       /\ IsSubSeqOf(mm, cols)
                 /\ Selected(v) =>
                       /\ Len(var_cols[v]) = 1
                       /\ Range(var_cols[v]) \subseteq BestMatrixCols(v, cols)

\* two candidates of two different preferred matrices: the one of the
\* lower index in the preference list is selected
C22_Witness ==
    /\ fpc = "extract"
    /\ \E v \in Range(var_order) :
          LET cols == CascadeInput(v) IN
          /\ Len(cols) = 2
          /\ ~NoMatrixPreference(v, cols)
          /\ ListedMatrix(v, cols) = Range(cols)
          /\ Cardinality(BestMatrixCols(v, cols)) = 1
          /\ Range(var_cols[v]) = BestMatrixCols(v, cols)

\* statistic of a column: own attribute, else the file metadata, else Absent
StatOf(c) ==
    IF file.var_defs[c].statistics # Absent THEN file.var_defs[c].statistics
    ELSE file.meta_statistics

\* the statistic preference list that applies to v
StatPref(v) ==
    IF EbasVarInfo(v).statistics # NoList THEN EbasVarInfo(v).statistics
    ELSE <<"arithmetic mean", "median">>

\* the columns of cols whose statistic has the lowest index in the list
BestStatCols(v, cols) ==
    LET pref == StatPref(v)
        listed == {c \in Range(cols) : StatOf(c) \in Range(pref)} IN
    {c \in listed :
        \A d \in listed : PrefIdx(pref, StatOf(c)) <= PrefIdx(pref, StatOf(d))}

\* the columns left by the matrix tie-break, in column order
AfterMatrix(v, cols) ==
    SelectSeq(cols, LAMBDA c : c \in BestMatrixCols(v, cols))

\* C23: when more than one candidate is left by the matrix tie-break (and
\* the statistic of each of them is known from the column or from the file
\* metadata), the statistic tie-break keeps exactly the candidates whose
\* statistic has the lowest index in the statistic preference list of the
\* variable if it has one, else in ['arithmetic mean', 'median']; the column
\* finally selected is one of them.  A candidate without known statistic
\* ends the resolution with the file error, and no listed statistic with
\* ValueError.
C23_StatisticTieBreak ==
    \A v \in Range(var_order) :
        LET cols == CascadeInput(v) IN
        (Len(cols) > 1 /\ ~NoMatrixPreference(v, cols)) =>
            LET mm == AfterMatrix(v, cols)
                best == BestStatCols(v, mm) IN
            Len(mm) > 1 =>
                IF \E c \in Range(mm) : StatOf(c) = Absent
                THEN /\ ~Selected(v)
                     /\ (fpc = "done" /\ v = FirstCascadeVar)
                           => outcome.status = "EbasFileError"
                ELSE /\ fpc = "best" =>
                           LET res == StatisticsMatches(mm, EbasVarInfo(v), file) IN
                           /\ Range(res) = best
                           /\ IsSubSeqOf(res, mm)
                     /\ best = {} =>
                           /\ ~Selected(v)
                           /\ (fpc = "done" /\ v = FirstCascadeVar)
                                 => outcome.status = "ValueError"
                     /\ Selected(v) =>
                           /\ Len(var_cols[v]) = 1
                           /\ Range(var_cols[v]) \subseteq best

\* a variable with a statistic preference list of its own, median before
\* arithmetic mean: of a mean and a median column the median one is kept
C23_Witness ==
    /\ fpc = "extract"
    /\ \E v \in Range(var_order) :
          LET cols == CascadeInput(v) IN
          /\ EbasVarInfo(v).statistics # NoList
          /\ Len(cols) = 2
          /\ AfterMatrix(v, cols) = cols
          /\ StatOf(cols[1]) = "arithmetic mean"
          /\ StatOf(cols[2]) = "median"
          /\ var_cols[v] = <<cols[2]>>

\* number of missing samples in the data vector of column c
MissingIn(c) ==
    Cardinality({k \in 1..Len(file.data[c]) : file.data[c][k] = NaN})

\* the columns left by the statistic tie-break for v, from the columns cols
\* handed to _find_best_data_column (no column if the cascade stops before)
AfterStatistics(v, cols) ==
    IF Len(cols) < 2 \/ NoMatrixPreference(v, cols) THEN {}
    ELSE LET mm == AfterMatrix(v, cols) IN
         IF Len(mm) < 2 \/ \E c \in Range(mm) : StatOf(c) = Absent THEN {}
         ELSE BestStatCols(v, mm)

\* C24: when more than one candidate is left by the statistic tie-break,
\* exactly one column is returned: a candidate with the fewest missing
\* samples in its data vector, and among the candidates with that minimal
\* count the one with the lowest column index.
C24_FewestNaN ==
    \A v \in Range(var_order) :
        LET left == AfterStatistics(v, CascadeInput(v)) IN
        (Cardinality(left) > 1 /\ Selected(v)) =>
            /\ Len(var_cols[v]) = 1
            /\ var_cols[v][1] \in left
            /\ \A d \in left :
                  \/ MissingIn(var_cols[v][1]) < MissingIn(d)
                  \/ MissingIn(var_cols[v][1]) = MissingIn(d) /\ var_cols[v][1] <= d

\* three candidates of the same statistic, the first with a missing sample
\* and the other two complete: the second column is returned
C24_Witness ==
    /\ fpc = "extract"
    /\ \E v \in Range(var_order) :
          LET left == AfterStatistics(v, CascadeInput(v)) IN
          /\ left = {1, 2, 3}
          /\ MissingIn(1) > 0 /\ MissingIn(2) = 0 /\ MissingIn(3) = 0
          /\ var_cols[v] = <<2>>

\* C30: for every list of two or more columns that the candidate filter and
\* the wavelength step hand to _find_best_data_column, some column left by
\* the matrix tie-break has a statistic of the applicable preference list:
\* the branch 'this should not happen' (ValueError, line 437) is never
\* taken.
C30_ZeroMatchUnreachable ==
    /\ outcome.status # "ValueError"
    /\ fpc = "best" =>
          \A v \in Range(var_order) :
              LET cols == CascadeInput(v) IN
              (Len(cols) > 1 /\ ~NoMatrixPreference(v, cols)) =>
                  LET mm == AfterMatrix(v, cols) IN
                  (Len(mm) > 1 /\ \A c \in Range(mm) : StatOf(c) # Absent)
                      => BestStatCols(v, mm) # {}

----------------------------------------------------------------------------
(* Properties of _merge_lists *)

\* no list of the dictionary of the caller holds a path twice
NoDuplicatePath ==
    \A k \in 1..Len(lists_per_var) : IsInjective(lists_per_var[k].lst)

AllInputPaths ==
    UNION {Range(lists_per_var[k].lst) : k \in 1..Len(lists_per_var)}

\* the variables whose list holds the path
VarsWith(path) ==
    {lists_per_var[k].var :
        k \in {j \in 1..Len(lists_per_var) : path \in Range(lists_per_var[j].lst)}}

\* C28: _merge_lists never changes the dictionary of the caller or its
\* lists; when no list holds a path twice, the 'logical error' exception is
\* not raised, the file list returned holds every path of any list exactly
\* once, files_contain has the length of files and its entry i holds exactly
\* the variables whose list holds files[i], each once.
C28_Step ==
    /\ lists_per_var' = lists_per_var
    /\ NoDuplicatePath =>
          /\ lpc' # "raised"
          /\ lpc' = "done" =>
                /\ IsInjective(files')
                /\ Range(files') = AllInputPaths
                /\ Len(files_contain') = Len(files')
                /\ \A j \in 1..Len(files') :
                      /\ IsInjective(files_contain'[j])
                      /\ Range(files_contain'[j]) = VarsWith(files'[j])

C28_MergeLists == [][C28_Step]_vars

\* two variables, a path in both lists and a path in the second list only
C28_Witness ==
    /\ lpc = "done" /\ NoDuplicatePath
    /\ Len(lists_per_var) = 2
    /\ \E p, q \in Paths :
          /\ p \in Range(lists_per_var[1].lst) \cap Range(lists_per_var[2].lst)
          /\ q \in Range(lists_per_var[2].lst) \ Range(lists_per_var[1].lst)
          /\ Len(files) = 2
          /\ \E j \in 1..2 : files[j] = p /\ Len(files_contain[j]) = 2

----------------------------------------------------------------------------
(* Properties of merge_station_data *)

\* the flat merge of two inputs has returned
FlatMergeOfTwo ==
    /\ mpc = "done" /\ merr = Absent
    /\ Len(stats) = 2 /\ ~merged.is_profile

LackingInputs ==
    {k \in 1..Len(stats) :
        ~stats[k].has_var \/ (opts.pref_attr /\ ~stats[k].has_pref)}

\* input k passes every check of the first loop
PassesChecks(k) ==
    /\ stats[k].has_var
    /\ opts.pref_attr => stats[k].has_pref
    /\ stats[k].kind # "bad"
    /\ (stats[k].kind = "series" /\ opts.fill_missing_nan) => stats[k].has_ts_type
    /\ ~(~stats[k].is_3d /\ \E j \in 1..(k - 1) : stats[j].is_3d)

NoMergeStep == mpc \in {"check", "done"} /\ merged = NoStation /\ work = <<>>

\* C10 as stated: DataCoverageError if any input lacks the variable,
\* MetaDataError if an attribute is requested and any input lacks it, and no
\* merge step in either case.
C10_ErrorByKind ==
    /\ LackingInputs # {} => NoMergeStep
    /\ mpc = "done" =>
          /\ (\E k \in 1..Len(stats) : ~stats[k].has_var)
                => merr = "DataCoverageError"
          /\ ( /\ \A k \in 1..Len(stats) : stats[k].has_var
               /\ opts.pref_attr
               /\ \E k \in 1..Len(stats) : ~stats[k].has_pref )
                => merr = "MetaDataError"

\* C10: when some input lacks the variable or the requested attribute,
\* merge_station_data raises an error and performs no merge step (no
\* ordering, no seeding, no merging); the inputs are checked in list order
\* and the error is that of the first input failing a check: when every
\* input before the first lacking one passes all checks, it is
\* DataCoverageError for a missing variable and MetaDataError for a missing
\* attribute.
C10_FirstFailure ==
    LackingInputs # {} =>
        /\ NoMergeStep
        /\ mpc = "done" =>
              /\ merr \in {"DataCoverageError", "MetaDataError", "ValueError"}
              /\ LET k0 == SetMin(LackingInputs) IN
                 (\A j \in 1..(k0 - 1) : PassesChecks(j)) =>
                    merr = IF ~stats[k0].has_var THEN "DataCoverageError"
                           ELSE "MetaDataError"

C10_Witness ==
    /\ mpc = "done" /\ Len(stats) = 3
    /\ PassesChecks(1) /\ PassesChecks(2)
    /\ ~stats[3].has_var
    /\ merr = "DataCoverageError"
    /\ merged = NoStation

\* two inputs of the group differ in station identity
IdentityDiffers ==
    \E j, k \in 1..Len(stats) : ~SameStation(stats[j].station, stats[k].station)

\* the group passes the checks that precede the merge of the inputs: the
\* first loop, and for profiles one time stamp and errors for all or none
MergeableGroup ==
    /\ \A k \in 1..Len(stats) : PassesChecks(k)
    /\ \/ \A k \in 1..Len(stats) : ~stats[k].is_3d
       \/ \A k \in 1..Len(stats) :
             /\ stats[k].is_3d
             /\ Cardinality(stats[k].ptimes) = 1
             /\ stats[k].has_err = stats[1].has_err

MixedGroup ==
    /\ \E k \in 1..Len(stats) : stats[k].is_3d
    /\ \E k \in 1..Len(stats) : ~stats[k].is_3d

\* input k passes the checks of the first loop that concern it alone
PassesOwnChecks(k) ==
    /\ stats[k].has_var
    /\ opts.pref_attr => stats[k].has_pref
    /\ stats[k].kind # "bad"
    /\ (stats[k].kind = "series" /\ opts.fill_missing_nan) => stats[k].has_ts_type

ProfileMerged == mpc = "done" /\ merr = Absent /\ merged.is_profile

\* the input behind column c of the merged array (columns sorted by time)
ColumnInput(c) ==
    stats[SortByTime([k \in 1..Len(stats) |-> TimeOf(stats[k])], Len(stats))[c]]

\* C13: in a profile merge the values of an input are interpolated onto the
\* canonical grid inside its native altitude range only; every grid level
\* below its lowest or above its highest native level is missing in its
\* column (no extrapolation, no edge value).
C13_NoEdgeFill ==
    ProfileMerged =>
        \A c \in 1..Len(merged.grid) : \A l \in 1..Len(VertGrid) :
            LET alt == ColumnInput(c).altitude IN
            (VertGrid[l] < alt[1] \/ VertGrid[l] > alt[Len(alt)])
                => merged.grid[c][l] = NaN

\* the merge of a group of one flat input has returned
SingleFlatMerged ==
    /\ mpc = "done" /\ merr = Absent
    /\ Len(stats) = 1 /\ ~stats[1].is_3d

\* C14 as stated: the merge of a single input returns the data of the input
\* unchanged: the same time stamps, the same values, no overlap.
C14_Unchanged ==
    SingleFlatMerged =>
        /\ merged.data = stats[1].data
        /\ merged.overlap = {}

\* C14: the merge of a single flat input returns the values of the input at
\* the time stamps of the input and an empty overlap; without
\* fill_missing_nan the series is the one of the input, with it the series
\* is put on the regular grid and the time stamps added hold missing
\* markers.
C14_SingleInput ==
    SingleFlatMerged =>
        /\ merged.overlap = {}
        /\ DOMAIN stats[1].data \subseteq DOMAIN merged.data
        /\ \A t \in DOMAIN stats[1].data : merged.data[t] = stats[1].data[t]
        /\ \A t \in DOMAIN merged.data \ DOMAIN stats[1].data :
              opts.fill_missing_nan /\ merged.data[t] = NaN
        /\ ~opts.fill_missing_nan => merged.data = stats[1].data

\* a single input with a gap, regularised
C14_Witness ==
    /\ SingleFlatMerged
    /\ stats[1].data = SeriesB
    /\ opts.fill_missing_nan
    /\ DOMAIN merged.data = 1..3
    /\ merged.data[2] = NaN

\* C17: with fill_missing_nan every input must provide the ts_type of the
\* variable; when an input lacks it the call ends in an error and no merged
\* station is returned, whether or not the data of that input was a time
\* series when passed in.
C17_TsTypeRequired ==
    ( /\ mpc = "done"
      /\ opts.fill_missing_nan
      /\ \E k \in 1..Len(stats) : ~stats[k].has_ts_type )
        => merr # Absent

\* the key an input is ordered by: the value of the preference attribute if
\* one is supplied, else the number of non-missing samples
MergeKey(stat) ==
    IF opts.pref_attr THEN stat.pref
    ELSE Cardinality({t \in DOMAIN stat.data : stat.data[t] # NaN})

Occurrences(s, x) == Cardinality({k \in 1..Len(s) : s[k] = x})

IsPermutationOf(s, t) ==
    /\ Len(s) = Len(t)
    /\ \A x \in Range(s) \cup Range(t) : Occurrences(s, x) = Occurrences(t, x)

\* ascending by the key, descending if sort_by_largest is set
InMergeOrder(s) ==
    \A a, b \in 1..Len(s) :
        a < b => IF opts.sort_by_largest THEN MergeKey(s[a]) >= MergeKey(s[b])
                 ELSE MergeKey(s[a]) <= MergeKey(s[b])

\* the flat merge has ordered its inputs
FlatOrdered ==
    \/ mpc \in {"seed", "merge"}
    \/ mpc = "done" /\ merged.is_set /\ ~merged.is_profile

\* the inputs in the order of the merge: those merged so far, then those
\* still to merge
MergeSequence == IF mpc = "seed" THEN work ELSE merged.sources \o work

\* the last input of s that has a value at time stamp t
LastWith(s, t) ==
    s[CHOOSE k \in 1..Len(s) :
         /\ t \in DOMAIN s[k].data
         /\ \A j \in (k + 1)..Len(s) : t \notin DOMAIN s[j].data]

C26_DistinctTimeAxis ==
    /\ (mpc = "done" /\ merr = Absent /\ merged.is_set /\ Len(stats) > 0
        /\ \E k \in 1..Len(stats) : stats[k].is_3d)
          => \A k \in 1..Len(stats) : Cardinality(stats[k].ptimes) = 1
    /\ ProfileMerged =>
          /\ \A a, b \in 1..Len(merged.times) :
                a < b => merged.times[a] < merged.times[b]
          /\ Range(merged.times) = {TimeOf(stats[k]) : k \in 1..Len(stats)}
          /\ \A c \in 1..Len(merged.times) :
                \E k \in 1..Len(stats) :
                   /\ TimeOf(stats[k]) = merged.times[c]
                   /\ merged.grid[c]
                         = InterpOnGrid(stats[k].altitude, stats[k].values)

\* C27: in a profile merge that returns and in which an input carries error
\* values, the result carries an error array of one column per column of
\* the merged values, the column of an input holding its error values
\* interpolated onto the canonical grid.
C27_ErrorArray ==
    (ProfileMerged /\ \E k \in 1..Len(stats) : stats[k].has_err) =>
        merged.errgrid
           = [c \in 1..Len(merged.grid) |->
                InterpOnGrid(ColumnInput(c).altitude, ColumnInput(c).errs)]

----------------------------------------------------------------------------
(* Properties of read(): the rows of a record *)

\* first row (0-based) of variable number n of the record of file k: the
\* rows of all records ingested before, then the variables before n
BlockStart(k, n) ==
    SumRows(k - 1) + (n - 1) * Len(hist[k].record.dtime)

Block(k, n) ==
    arange(BlockStart(k, n), BlockStart(k, n) + Len(hist[k].record.dtime))

Blocks == {<<k, n>> : k \in OkFiles, n \in 1..MaxVars} \cap
          {kn \in (1..Len(hist)) \X (1..MaxVars) :
              kn[2] <= Len(hist[kn[1]].record.contains_vars)}

\* the registry as the ingestion loop built it, one entry per record
IngestedMeta ==
    [j \in 1..Cardinality(OkFiles) |->
       LET k == CHOOSE k \in OkFiles : NumOkBefore(k) = j - 1 IN
       MetaEntry(hist[k].record, k - 1)]

\* the key under which the metadata of the record of file k is registered
RegistryKey(k) ==
    IF rpc = "done" THEN NewKey(IngestedMeta, hist[k].meta_key + 1)
    ELSE hist[k].meta_key

\* rows of the table with this key and this variable index, ascending
RECURSIVE RowsWith(_, _, _)
RowsWith(key, vi, r) ==
    IF r >= Len(data) THEN <<>>
    ELSE (IF data[r + 1].meta_key = key /\ data[r + 1].var_idx = vi
          THEN <<r>> ELSE <<>>) \o RowsWith(key, vi, r + 1)

\* C29: every ingested record has, for each variable of its list in order,
\* a block of num_times consecutive rows; row j of the block carries the key
\* the record is registered under, the station coordinates, the index of the
\* variable, time stamp j and value j of the variable; the blocks follow each
\* other without gap or overlap in the order of ingestion and cover exactly
\* the rows 0 .. idx-1; meta_idx[meta_key][var] lists exactly the rows of the
\* block (after merge_common_meta: the rows of the blocks registered under
\* the same key).
C29_RowBlocks ==
    LET blocks == Blocks
        blk == [kn \in blocks |-> Block(kn[1], kn[2])]
        key == [k \in OkFiles |-> RegistryKey(k)] IN
    /\ \A kn \in blocks :
          LET k == kn[1]
              rec == hist[k].record
              var == rec.contains_vars[kn[2]] IN
          /\ Len(blk[kn]) = Len(rec.dtime)
          /\ \A j \in 1..Len(rec.dtime) :
                /\ blk[kn][j] < Len(data)
                /\ data[blk[kn][j] + 1] =
                      [meta_key |-> key[k], time |-> rec.dtime[j],
                       lat |-> rec.stat_lat, lon |-> rec.stat_lon,
                       alt |-> rec.stat_alt, var_idx |-> var_idx[var],
                       value |-> files[k].data[rec.colnum[var]][j]]
          /\ key[k] \in DOMAIN meta_idx
          /\ var \in DOMAIN meta_idx[key[k]]
          /\ rpc # "done" => meta_idx[key[k]][var] = blk[kn]
          /\ meta_idx[key[k]][var] = RowsWith(key[k], var_idx[var], 0)
    /\ \A k \in OkFiles :
          /\ hist[k].written = UNION {Range(blk[kn]) : kn \in {b \in blocks : b[1] = k}}
          /\ DOMAIN meta_idx[key[k]] = Range(hist[k].record.contains_vars)
    /\ DOMAIN meta_idx = {key[k] : k \in OkFiles}
    /\ \A a, b \in blocks : a # b => Range(blk[a]) \cap Range(blk[b]) = {}
    /\ UNION {Range(blk[kn]) : kn \in blocks} = 0..(idx - 1)

\* two records of two variables and two time stamps each are in the table,
\* the second behind a file that failed
C29_Witness ==
    /\ rpc = "loop"
    /\ \E a, b, c \in 1..Len(hist) :
          /\ a < b /\ b < c
          /\ a \in OkFiles /\ b \notin OkFiles /\ c \in OkFiles
          /\ Len(hist[a].record.contains_vars) = 2
          /\ Len(hist[c].record.contains_vars) = 2
          /\ Len(hist[a].record.dtime) = 2
          /\ Len(hist[c].record.dtime) = 2
          /\ meta_idx[hist[c].meta_key][hist[c].record.contains_vars[2]]
               = <<idx - 2, idx - 1>>

====
